---- MODULE Spec2Model ----
(***************************************************************************)
(* Tender-scraping layer of the repository: the Deduplication Gateway      *)
(* (Backend/scrapers/services.py), the six site scrapers                    *)
(* (Backend/scrapers/<site>/scraper.py) and their export step.              *)
(*                                                                         *)
(* Strings that the code trims or lower-cases are sequences of characters,  *)
(* so that strip() and LOWER() are computed and not assumed.                *)
(***************************************************************************)
EXTENDS Integers, Sequences, FiniteSets, TLC

(***************************************************************************)
(* Bounds of the model.                                                     *)
(***************************************************************************)
MaxTitleLen == 2
MaxBatch == 2
MaxStored == 1

(***************************************************************************)
(* Text: titles are sequences over a small alphabet holding a lower-case    *)
(* letter, its upper-case form and a whitespace character.                  *)
(***************************************************************************)
Chars == {"a", "A", " "}

RECURSIVE SeqsUpTo(_, _)
SeqsUpTo(S, n) ==
  IF n = 0 THEN {<<>>}
  ELSE LET shorter == SeqsUpTo(S, n - 1) IN
       shorter \cup {Append(s, c) : s \in shorter, c \in S}

Titles == SeqsUpTo(Chars, MaxTitleLen)

IsSpace(c) == c = " "

\* The capital letters of the texts the model draws.
LowerChar(c) ==
  CASE c = "A" -> "a" [] c = "C" -> "c" [] c = "D" -> "d" [] c = "F" -> "f"
    [] c = "G" -> "g" [] c = "I" -> "i" [] c = "J" -> "j"
    [] c = "M" -> "m" [] c = "N" -> "n" [] c = "O" -> "o" [] c = "S" -> "s"
    [] c = "Ã" -> "ã"
    [] OTHER -> c

\* SQL LOWER(...) / a case-insensitive comparison key
Lower(s) == [i \in 1..Len(s) |-> LowerChar(s[i])]

RECURSIVE LStrip(_)
LStrip(s) == IF s # <<>> /\ IsSpace(Head(s)) THEN LStrip(Tail(s)) ELSE s

RECURSIVE RStrip(_)
RStrip(s) ==
  IF s # <<>> /\ IsSpace(s[Len(s)]) THEN RStrip(SubSeq(s, 1, Len(s) - 1)) ELSE s

\* str.strip()
Strip(s) == RStrip(LStrip(s))

(***************************************************************************)
(* Records handed to the gateway: the dictionaries the scrapers build.      *)
(***************************************************************************)
DateTexts == {"N/A", "2025-08-27"}
Links == {"N/A", "/tender/1"}

Tender(o, d, l) == [objet |-> o, date_limite |-> d, link |-> l]

\* Every title without a date and a link; the titles of at most one character
\* also with a date and a link.
TenderRecords ==
  {Tender(o, "N/A", "N/A") : o \in Titles}
    \cup {Tender(o, "2025-08-27", "/tender/1") : o \in SeqsUpTo(Chars, 1)}

Batches == SeqsUpTo(TenderRecords, MaxBatch)

\* The two site names used in the gateway specification: the site of the
\* scraper under study and another site of the mapping.
SiteNames == {"Royal Air Maroc", "Marsa Maroc"}

(***************************************************************************)
(* State.                                                                   *)
(***************************************************************************)
VARIABLES
  DJANGO_AVAILABLE,   \* services.py module flag, set once by setup_django()
  tendersite,         \* table tenders_tendersite: the set of site names (unique)
  tenders_tender,     \* table tenders_tender: rows [title, site]
  call,               \* the last gateway call: arguments, branch taken, result
  scraper,            \* the scraper (directory name) whose runs are followed
  pc,                 \* position of the run inside scrape()
  runs,               \* number of scrape() invocations started so far
  attempt,            \* RoyalAirMarocScraper: loop variable of the retry loop
  slept,              \* number of time.sleep(retry_delay) calls of the current run
  dom,                \* SpecExtract: the listing page the portal serves on every run
  force,              \* run_scraper: the --force option of each invocation
  cmd,                \* run_scraper: position and outcome of each invocation of handle()
  scrapinglog,        \* table tenders_scrapinglog: the row each invocation created
  date_text,          \* the text handed to convert_date_to_standard_format
  formatted_date,     \* what convert_date_to_standard_format returned for it
  is_staff,           \* subscription views: request.user.is_staff
  subscription,       \* table subscription_subscription: the user's rows, oldest first
  auth_password_reset_token,  \* table auth_password_reset_token, oldest row first
  password,           \* the password of each user
  user_temporary_permission,  \* table of UserTemporaryPermission, the user's rows
  permission_migration_log,   \* table of PermissionMigrationLog, the user's rows
  last,               \* the last request or service call and its outcome
  extracted,          \* scrape(): the list tenders built by the extraction loop
  new_tenders,        \* scrape(): the batch returned by the gateway
  ret,                \* outcome of scrape(): a returned list or an exception
  exportRet,          \* value returned by _export_data
  jsonStore,          \* <site>_tenders.json
  xlsx,               \* <site>_tenders.xlsx
  dataTxt,            \* data.txt
  failedAt,           \* stage at which the run failed, "none" otherwise
  io,                 \* I/O failure met by the export step of the run
  storeAtStart,       \* <site>_tenders.json when the run started
  xlsxAtStart         \* <site>_tenders.xlsx when the run started

dbVars == <<tendersite, tenders_tender>>
fileVars == <<jsonStore, xlsx, dataTxt>>
runVars == <<pc, runs, attempt, slept, extracted, new_tenders, ret, exportRet, failedAt, io,
             storeAtStart, xlsxAtStart>>
cmdVars == <<force, cmd, scrapinglog>>
dateVars == <<date_text, formatted_date>>
subVars == <<is_staff, subscription>>
authVars == <<auth_password_reset_token, password>>
migVars == <<user_temporary_permission, permission_migration_log>>
webVars == <<subVars, authVars, migVars, last>>
envVars == <<DJANGO_AVAILABLE, tendersite, tenders_tender, call, scraper, dom, cmdVars, dateVars,
            webVars>>
scrapeVars == <<scraper, dom, cmdVars, dateVars, webVars, pc, runs, attempt, slept, extracted, new_tenders, ret, exportRet,
                jsonStore, xlsx, dataTxt, failedAt, io, storeAtStart, xlsxAtStart>>
vars == <<DJANGO_AVAILABLE, tendersite, tenders_tender, call, scraper, dom, cmdVars, dateVars,
          webVars, pc, runs,
          attempt, slept, extracted, new_tenders, ret, exportRet, jsonStore, xlsx, dataTxt,
          failedAt, io, storeAtStart, xlsxAtStart>>

NoCall == [op |-> "none"]

(***************************************************************************)
(* DeduplicationService._filter_new_tenders_db: the loop over the batch.    *)
(***************************************************************************)
\* SELECT COUNT(*) FROM tenders_tender WHERE LOWER(title) = LOWER(%s) AND site_id = %s
CountExisting(title, site_id, rows) ==
  Cardinality({r \in rows : Lower(r.title) = Lower(title) /\ r.site = site_id})

\* The loop without its "if not title: continue".
RECURSIVE NewTendersLoop_KeepsEmpty(_, _, _)
NewTendersLoop_KeepsEmpty(tenders, site_id, rows) ==
  IF tenders = <<>> THEN <<>>
  ELSE LET tender_data == Head(tenders)
           title == Strip(tender_data.objet)
           rest == NewTendersLoop_KeepsEmpty(Tail(tenders), site_id, rows)
       IN  IF CountExisting(title, site_id, rows) = 0
           THEN <<tender_data>> \o rest
           ELSE rest

\* The loop with the query's "AND site_id = %s" dropped.
RECURSIVE NewTendersLoop_AnySite(_, _, _)
NewTendersLoop_AnySite(tenders, site_id, rows) ==
  IF tenders = <<>> THEN <<>>
  ELSE LET tender_data == Head(tenders)
           title == Strip(tender_data.objet)
           rest == NewTendersLoop_AnySite(Tail(tenders), site_id, rows)
       IN  IF title = <<>> THEN rest
           ELSE IF \A r \in rows : Lower(r.title) # Lower(title)
                THEN <<tender_data>> \o rest
                ELSE rest

RECURSIVE NewTendersLoop(_, _, _)
NewTendersLoop(tenders, site_id, rows) ==
  IF tenders = <<>> THEN <<>>
  ELSE LET tender_data == Head(tenders)
           title == Strip(tender_data.objet)
           rest == NewTendersLoop(Tail(tenders), site_id, rows)
       IN  IF title = <<>> THEN rest
           ELSE IF CountExisting(title, site_id, rows) = 0
                THEN <<tender_data>> \o rest
                ELSE rest

\* The value of _filter_new_tenders_db, or the exception it raises.
\* dbRaises: the database layer raises during the check.
filter_new_tenders_db(tenders, site_name, available, sitesTable, rows, dbRaises) ==
  IF ~available THEN [raised |-> FALSE, branch |-> "unavailable", value |-> tenders]
  ELSE IF dbRaises THEN [raised |-> TRUE, branch |-> "error", value |-> <<>>]
  ELSE IF site_name \notin sitesTable
       THEN [raised |-> FALSE, branch |-> "nosite", value |-> tenders]
       ELSE [raised |-> FALSE, branch |-> "checked",
             value |-> NewTendersLoop(tenders, site_name, rows)]

\* filter_new_tenders without its try/except.
filter_new_tenders_NoCatch(tenders, site_name, available, sitesTable, rows, dbRaises) ==
  IF ~available
  THEN [raised |-> FALSE, branch |-> "unavailable", value |-> tenders]
  ELSE filter_new_tenders_db(tenders, site_name, available,
                             sitesTable, rows, dbRaises)

\* DeduplicationService.filter_new_tenders
filter_new_tenders(tenders, site_name, available, sitesTable, rows, dbRaises) ==
  IF ~available
  THEN [raised |-> FALSE, branch |-> "unavailable", value |-> tenders]
  ELSE LET r == filter_new_tenders_db(tenders, site_name, available,
                                      sitesTable, rows, dbRaises)
       IN  IF r.raised
           THEN [raised |-> FALSE, branch |-> "error", value |-> tenders]
           ELSE r

(***************************************************************************)
(* DeduplicationService.save_tenders_to_db                                  *)
(***************************************************************************)
\* Tender.save(): content_hash = sha256(title + organization + reference) is
\* unique over the whole table; the gateway sets neither organization nor a
\* reference taken from the page, so two rows collide when their titles are
\* the same string.
HashCollides(title, rows) == \E r \in rows : r.title = title

RECURSIVE SaveLoop(_, _, _)
SaveLoop(tenders, site, rows) ==
  IF tenders = <<>> THEN rows
  ELSE LET title == Strip(Head(tenders).objet) IN
       IF title = <<>> THEN SaveLoop(Tail(tenders), site, rows)
       ELSE IF [title |-> title, site |-> site] \in rows
            THEN SaveLoop(Tail(tenders), site, rows)        \* get: found
            ELSE IF HashCollides(title, rows)
                 THEN rows                                   \* IntegrityError: loop left
                 ELSE SaveLoop(Tail(tenders), site,
                               rows \cup {[title |-> title, site |-> site]})

SaveTendersToDb(tenders, site_name) ==
  /\ call' = [op |-> "save"]
  /\ IF ~DJANGO_AVAILABLE
     THEN UNCHANGED dbVars
     ELSE /\ tendersite' = tendersite \cup {site_name}
          /\ tenders_tender' = SaveLoop(tenders, site_name, tenders_tender)
  /\ UNCHANGED <<DJANGO_AVAILABLE, scrapeVars>>

\* A gateway call that creates the missing site, as save_tenders_to_db does.
FilterNewTenders_CreatesSite(tenders, site_name, dbRaises) ==
  LET r == filter_new_tenders(tenders, site_name, DJANGO_AVAILABLE,
                              tendersite, tenders_tender, dbRaises)
  IN  /\ call' = [op |-> "filter", tenders |-> tenders, site_name |-> site_name,
                  fault |-> dbRaises,
                  raised |-> r.raised, branch |-> r.branch, result |-> r.value,
                  sitesBefore |-> tendersite, rowsBefore |-> tenders_tender]
      /\ tendersite' = IF DJANGO_AVAILABLE /\ ~dbRaises
                       THEN tendersite \cup {site_name} ELSE tendersite
      /\ UNCHANGED <<DJANGO_AVAILABLE, tenders_tender, scrapeVars>>

FilterNewTenders(tenders, site_name, dbRaises) ==
  LET r == filter_new_tenders(tenders, site_name, DJANGO_AVAILABLE,
                              tendersite, tenders_tender, dbRaises)
  IN  /\ call' = [op |-> "filter", tenders |-> tenders, site_name |-> site_name,
                  fault |-> dbRaises,
                  raised |-> r.raised, branch |-> r.branch, result |-> r.value,
                  sitesBefore |-> tendersite, rowsBefore |-> tenders_tender]
      /\ UNCHANGED <<DJANGO_AVAILABLE, tendersite, tenders_tender, scrapeVars>>

\* The files of a site directory before the first run, and a scraper at rest.
(***************************************************************************)
(* The management command run_scraper: MaxInvocations invocations of        *)
(* handle() for one site, each a process of its own.                        *)
(***************************************************************************)
MaxInvocations == 2

Procs == 1..MaxInvocations

\* No ScrapingLog row (yet) for an invocation.
NoLog == [site |-> "", status |-> "none", completed_at |-> FALSE,
          items_found |-> 0, error_message |-> ""]

\* ScrapingLog.objects.create(site=site, status='running', started_at=...)
RunningLog(site) == [site |-> site, status |-> "running", completed_at |-> FALSE,
                     items_found |-> 0, error_message |-> ""]

NotStarted == [pc |-> "get_site", stepFailed |-> FALSE, out |-> "none"]

InitNoCommand ==
  /\ force = [p \in Procs |-> FALSE]
  /\ cmd = [p \in Procs |-> NotStarted]
  /\ scrapinglog = [p \in Procs |-> NoLog]

NotConverted == [kind |-> "pending", text |-> <<>>]

InitNoDate ==
  /\ date_text = <<>>
  /\ formatted_date = NotConverted

\* No request has been made.
NoRequest == [op |-> "none"]

\* The accounts of the model.
Users == {"u1", "u2"}

InitNoAuth ==
  /\ auth_password_reset_token = <<>>
  /\ password = [u \in Users |-> "initial"]

InitNoMigration ==
  /\ user_temporary_permission = <<>>
  /\ permission_migration_log = <<>>

InitNoWeb ==
  /\ is_staff = FALSE
  /\ subscription = <<>>
  /\ InitNoAuth
  /\ InitNoMigration
  /\ last = NoRequest

MissingFile == [kind |-> "missing", recs |-> <<>>]
NoRet == [kind |-> "none", value |-> <<>>]

InitRunVars ==
  /\ pc = "Idle"
  /\ runs = 0
  /\ attempt = 0
  /\ slept = 0
  /\ extracted = <<>>
  /\ new_tenders = <<>>
  /\ ret = NoRet
  /\ exportRet = "n/a"
  /\ jsonStore = MissingFile
  /\ xlsx = MissingFile
  /\ dataTxt = MissingFile
  /\ failedAt = "none"
  /\ io = "none"
  /\ storeAtStart = MissingFile
  /\ xlsxAtStart = MissingFile

InitDedup ==
  /\ DJANGO_AVAILABLE \in BOOLEAN
  /\ tendersite = {}
  /\ tenders_tender = {}
  /\ call = NoCall
  /\ scraper = "royalairmaroc"
  /\ dom = <<>>
  /\ InitRunVars
  /\ InitNoWeb
  /\ InitNoCommand
  /\ InitNoDate

\* One gateway call is examined per behaviour: the tables are filled first.
NextSave ==
  /\ call.op # "filter"
  /\ \E t \in Batches, s \in SiteNames :
    /\ \A n \in SiteNames :
         Cardinality({r \in SaveLoop(t, s, tenders_tender) : r.site = n}) <= MaxStored
    /\ SaveTendersToDb(t, s)

NextFilter ==
  /\ call.op # "filter"
  /\ \E t \in Batches, s \in SiteNames, f \in BOOLEAN : FilterNewTenders(t, s, f)

NextDedup == NextSave \/ NextFilter

SpecDedup == InitDedup /\ [][NextDedup]_vars

(***************************************************************************)
(* The six site scrapers.                                                   *)
(***************************************************************************)
MaxRuns == 2
MaxRows == 2

\* RoyalAirMarocScraper.__init__: self.max_retries
max_retries == 3

\* Backend/scrapers/<directory>/scraper.py
Scrapers == {"adm", "marchespublics", "marsamaroc", "offresonline",
             "royalairmaroc", "cgi"}

ScraperClass(s) ==
  CASE s = "adm" -> "AdmScraper"
    [] s = "marchespublics" -> "MarchesPublicsScraper"
    [] s = "marsamaroc" -> "MarsaMarocScraper"
    [] s = "offresonline" -> "OffresonlineScraper"
    [] s = "royalairmaroc" -> "RoyalAirMarocScraper"
    [] s = "cgi" -> "CGIESourcingScraper"

\* DeduplicationService.get_site_name_from_scraper_class
get_site_name_from_scraper_class(scraper_class_name) ==
  CASE scraper_class_name = "AdmScraper" -> "ADM - Autoroutes du Maroc"
    [] scraper_class_name = "MarchesPublicsScraper" -> "MarchÃ©s Publics"
    [] scraper_class_name = "MarsaMarocScraper" -> "Marsa Maroc"
    [] scraper_class_name = "OffresonlineScraper" -> "Offres Online"
    [] scraper_class_name = "RoyalAirMarocScraper" -> "Royal Air Maroc"
    [] scraper_class_name = "CGIESourcingScraper" -> "CGI E-Sourcing"
    [] OTHER -> scraper_class_name

SiteOf(s) == get_site_name_from_scraper_class(ScraperClass(s))

(***************************************************************************)
(* Extraction.  A page is the sequence of its candidate rows; a row is      *)
(* absent from the DOM, present without a title element, present with a     *)
(* Playwright call that raises, or present with the raw text of its title.  *)
(***************************************************************************)
PageTitles == SeqsUpTo(Chars, 1)

Row(k, t) == [kind |-> k, text |-> t]

Rows == {Row(k, <<>>) : k \in {"absent", "notitle", "raises"}}
          \cup {Row("title", t) : t \in PageTitles}

Pages == SeqsUpTo(Rows, MaxRows)

NA == <<"N", "/", "A">>

\* The dictionary each scraper builds for a row whose title text is o.
MakeTender(s, o) ==
  CASE s \in {"cgi", "marchespublics"} -> [objet |-> o, date_limite |-> "N/A"]
    [] OTHER -> Tender(o, "N/A", "N/A")

Skip == [do |-> "skip", objet |-> <<>>]
Raise == [do |-> "fail", objet |-> <<>>]
Record(o) == [do |-> "record", objet |-> o]

\* What one iteration of the extraction loop does with a row:
\* "skip" (continue), "fail" (the exception leaves the loop) or "record".
RowOutcome(s, row) ==
  CASE s = "adm" ->
         IF row.kind \in {"absent", "raises"} THEN Skip
         ELSE IF row.kind = "notitle" THEN Record(NA)
         ELSE Record(Strip(row.text))
    [] s \in {"marsamaroc", "royalairmaroc"} ->
         IF row.kind = "title" THEN Record(Strip(row.text)) ELSE Skip
    [] s = "offresonline" ->
         IF row.kind = "raises" THEN Raise
         ELSE IF row.kind \in {"absent", "notitle"} \/ row.text = <<>> THEN Skip
         ELSE Record(Strip(row.text))
    [] s = "cgi" ->
         IF row.kind = "absent" THEN Skip
         ELSE IF row.kind = "title" THEN Record(Strip(row.text))
         ELSE Raise
    [] s = "marchespublics" ->
         IF row.kind = "raises" THEN Raise
         ELSE IF row.kind = "title" THEN Record(Strip(row.text))
         ELSE Skip

\* seen: AdmScraper's seen_objects (the other scrapers keep no such set).
RECURSIVE ExtractLoop(_, _, _, _)
ExtractLoop(s, page, acc, seen) ==
  IF page = <<>> THEN [failed |-> FALSE, tenders |-> acc]
  ELSE LET o == RowOutcome(s, Head(page)) IN
       IF o.do = "fail" THEN [failed |-> TRUE, tenders |-> <<>>]
       ELSE IF o.do = "skip" THEN ExtractLoop(s, Tail(page), acc, seen)
       ELSE IF s = "adm" /\ o.objet \in seen
            THEN ExtractLoop(s, Tail(page), acc, seen)
            ELSE ExtractLoop(s, Tail(page), Append(acc, MakeTender(s, o.objet)),
                             seen \cup {o.objet})

(***************************************************************************)
(* Failure of a step of scrape().                                           *)
(***************************************************************************)
\* Every scraper re-raising, as adm does.
FailureOutcome_AllRaise(s) == [kind |-> "raised", value |-> <<>>]

\* What scrape() does with an exception that leaves a step: the except
\* clauses of adm (raise), marsamaroc (raise e) and offresonline (none)
\* let it out; marchespublics, cgi and royalairmaroc return [].
FailureOutcome(s) ==
  IF s \in {"adm", "marsamaroc", "offresonline"}
  THEN [kind |-> "raised", value |-> <<>>]
  ELSE [kind |-> "list", value |-> <<>>]

PreExportStages == {"Authenticating", "Navigating", "WaitingForContent", "Extracting"}

NextStage(stage) ==
  CASE stage = "Authenticating" -> "Navigating"
    [] stage = "Navigating" -> "WaitingForContent"
    [] stage = "WaitingForContent" -> "Extracting"
    [] stage = "Extracting" -> "Deduplicating"
    [] stage = "Deduplicating" -> "Exporting"

(***************************************************************************)
(* Blocking waits.  Playwright gives up a wait after its timeout and raises *)
(* TimeoutError; a timeout of 0 disables the limit.                         *)
(***************************************************************************)
\* Playwright's default timeout, in milliseconds.
PlaywrightDefault == 30000

\* page.set_default_timeout(...) of royalairmaroc and cgi; the others keep
\* Playwright's default.
default_timeout(s) ==
  CASE s = "royalairmaroc" -> 180000
    [] s = "cgi" -> 60000
    [] OTHER -> PlaywrightDefault

\* A scraper whose waits for selectors have no time limit.
Timeouts_NoLimit(s) ==
  CASE s = "adm" -> {0}
    [] s = "marchespublics" -> {default_timeout(s), 5000}
    [] s = "marsamaroc" -> {default_timeout(s), 60000}
    [] s = "offresonline" -> {default_timeout(s)}
    [] s = "royalairmaroc" -> {default_timeout(s), 180000}
    [] s = "cgi" -> {default_timeout(s), 10000, 30000, 60000}

\* The timeouts of the blocking waits (goto, wait_for_selector,
\* wait_for_load_state, click, fill) of scrape(): the timeout= arguments and,
\* for the calls without one, the page's default.
Timeouts(s) ==
  CASE s = "adm" -> {default_timeout(s)}
    [] s = "marchespublics" -> {default_timeout(s), 5000}
    [] s = "marsamaroc" -> {default_timeout(s), 60000}
    [] s = "offresonline" -> {default_timeout(s)}
    [] s = "royalairmaroc" -> {default_timeout(s), 180000}
    [] s = "cgi" -> {default_timeout(s), 10000, 30000, 60000}

\* Every wait of the scraper gives up after a finite time.
WaitsTimeOut(s) == \A t \in Timeouts(s) : t > 0

\* A retry loop that also waits the delay after its last attempt.
Fail_SleepsAfterLast ==
  IF scraper = "royalairmaroc" /\ attempt < max_retries - 1
  THEN /\ slept' = slept + 1
       /\ attempt' = attempt + 1
       /\ pc' = "Authenticating"
       /\ extracted' = <<>>
       /\ UNCHANGED <<runs, new_tenders, ret, exportRet, failedAt, io,
                      storeAtStart, xlsxAtStart, fileVars>>
  ELSE /\ pc' = "Returned"
       /\ failedAt' = pc
       /\ slept' = slept + 1
       /\ ret' = FailureOutcome(scraper)
       /\ UNCHANGED <<runs, attempt, extracted, new_tenders, exportRet, io,
                      storeAtStart, xlsxAtStart, fileVars>>

\* A failure path that dumps the batch gathered so far into the store.
Fail_DumpsBatch ==
  IF scraper = "royalairmaroc" /\ attempt < max_retries - 1
  THEN /\ slept' = slept + 1
       /\ attempt' = attempt + 1
       /\ pc' = "Authenticating"
       /\ extracted' = <<>>
       /\ UNCHANGED <<runs, new_tenders, ret, exportRet, failedAt, io,
                      storeAtStart, xlsxAtStart, fileVars>>
  ELSE /\ pc' = "Returned"
       /\ failedAt' = pc
       /\ ret' = [kind |-> "list", value |-> <<>>]
       /\ jsonStore' = [kind |-> "array", recs |-> extracted]
       /\ UNCHANGED <<runs, attempt, slept, extracted, new_tenders, exportRet, io,
                      storeAtStart, xlsxAtStart, xlsx, dataTxt>>

\* An exception left the step at pc.  RoyalAirMarocScraper starts the next
\* attempt while attempts remain; otherwise scrape() ends.
Fail ==
  IF scraper = "royalairmaroc" /\ attempt < max_retries - 1
  THEN /\ slept' = slept + 1
       /\ attempt' = attempt + 1
       /\ pc' = "Authenticating"
       /\ extracted' = <<>>
       /\ UNCHANGED <<runs, new_tenders, ret, exportRet, failedAt, io,
                      storeAtStart, xlsxAtStart, fileVars>>
  ELSE /\ pc' = "Returned"
       /\ failedAt' = pc
       /\ ret' = FailureOutcome(scraper)
       /\ UNCHANGED <<runs, attempt, slept, extracted, new_tenders, exportRet, io,
                      storeAtStart, xlsxAtStart, fileVars>>

(***************************************************************************)
(* The export step.                                                         *)
(***************************************************************************)
ArrayFile(recs) == [kind |-> "array", recs |-> recs]

\* I/O failures of the export step: none; open(data.txt, 'w') fails; opening
\* the store for reading fails; open(json, 'w') fails; json.dump fails after
\* the file was truncated, leaving text that is not JSON or bytes that are
\* not UTF-8; writing the spreadsheet fails.
IoFaults == {"none", "txt", "read", "open", "dump_text", "dump_bytes", "xlsx"}

WritesDataTxt(s) == s \in {"adm", "cgi", "marchespublics"}

\* The failures that can occur in the export step of scraper s on this store.
ApplicableFaults(s, store) ==
  {f \in IoFaults :
     /\ f = "txt" => WritesDataTxt(s)
     /\ f = "read" => store.kind # "missing"}

\* if os.path.exists(path): try: json.load(f)
\*                         except (json.JSONDecodeError, FileNotFoundError): []
ReadExisting(store, fault) ==
  CASE store.kind = "missing" -> [raised |-> FALSE, data |-> <<>>]
    [] fault = "read" -> [raised |-> TRUE, data |-> <<>>]
    [] store.kind = "array" -> [raised |-> FALSE, data |-> store.recs]
    [] store.kind = "malformed" -> [raised |-> FALSE, data |-> <<>>]
    [] store.kind = "undecodable" -> [raised |-> TRUE, data |-> <<>>]

\* The store rewritten with the new batch alone.
MergeTenders_Overwrites(existing_data, new) == new

\* all_tenders = existing_data + new_tenders
MergeTenders(existing_data, new) == existing_data \o new

\* The statements of the export step, in order, up to the first exception.
export_data(s, new, store, xl, txt, fault) ==
  LET txt1 == IF WritesDataTxt(s) /\ fault # "txt" THEN ArrayFile(new) ELSE txt
      rd == ReadExisting(store, fault)
      all_tenders == MergeTenders(rd.data, new)
  IN  IF WritesDataTxt(s) /\ fault = "txt"
      THEN [raised |-> TRUE, json |-> store, xlsx |-> xl, txt |-> txt]
      ELSE IF rd.raised \/ fault = "open"
      THEN [raised |-> TRUE, json |-> store, xlsx |-> xl, txt |-> txt1]
      ELSE IF fault = "dump_text"
      THEN [raised |-> TRUE, json |-> [kind |-> "malformed", recs |-> <<>>],
            xlsx |-> xl, txt |-> txt1]
      ELSE IF fault = "dump_bytes"
      THEN [raised |-> TRUE, json |-> [kind |-> "undecodable", recs |-> <<>>],
            xlsx |-> xl, txt |-> txt1]
      ELSE IF fault = "xlsx"
      THEN [raised |-> TRUE, json |-> ArrayFile(all_tenders), xlsx |-> xl, txt |-> txt1]
      ELSE [raised |-> FALSE, json |-> ArrayFile(all_tenders),
            xlsx |-> ArrayFile(all_tenders), txt |-> txt1]

\* The value _export_data hands back: True / False in marsamaroc, offresonline
\* and royalairmaroc; nothing (None) in cgi and marchespublics; adm exports
\* inline and has no such value.
ExportReturn(s, raised) ==
  CASE s = "adm" -> "n/a"
    [] s \in {"cgi", "marchespublics"} -> "None"
    [] OTHER -> IF raised THEN "False" ELSE "True"

(***************************************************************************)
(* scrape(), step by step.                                                  *)
(***************************************************************************)
\* scrape() is entered.
BeginRun ==
  /\ pc \in {"Idle", "Returned"}
  /\ runs < MaxRuns
  /\ pc' = "Authenticating"
  /\ runs' = runs + 1
  /\ attempt' = 0
  /\ slept' = 0
  /\ extracted' = <<>>
  /\ new_tenders' = <<>>
  /\ ret' = NoRet
  /\ exportRet' = "n/a"
  /\ failedAt' = "none"
  /\ io' = "none"
  /\ storeAtStart' = jsonStore
  /\ xlsxAtStart' = xlsx
  /\ UNCHANGED fileVars

StartRun ==
  /\ BeginRun
  /\ UNCHANGED envVars

\* Authentication, navigation or the wait for the results container succeeds.
StepOk ==
  /\ pc \in {"Authenticating", "Navigating", "WaitingForContent"}
  /\ pc' = NextStage(pc)
  /\ UNCHANGED envVars
  /\ UNCHANGED <<runs, attempt, slept, extracted, new_tenders, ret, exportRet, failedAt, io,
                 storeAtStart, xlsxAtStart, fileVars>>

\* ... or raises (timeout, missing field, navigation error).
StepFails ==
  /\ pc \in {"Authenticating", "Navigating", "WaitingForContent"}
  /\ WaitsTimeOut(scraper)
  /\ Fail
  /\ UNCHANGED envVars

Extract(page) ==
  /\ pc = "Extracting"
  /\ UNCHANGED envVars
  /\ LET r == ExtractLoop(scraper, page, <<>>, {}) IN
     IF r.failed THEN Fail
     ELSE /\ extracted' = r.tenders
          /\ pc' = "Deduplicating"
          /\ UNCHANGED <<runs, attempt, slept, new_tenders, ret, exportRet, failedAt, io,
                         storeAtStart, xlsxAtStart, fileVars>>

Deduplicate(dbRaises) ==
  /\ pc = "Deduplicating"
  /\ UNCHANGED envVars
  /\ new_tenders' = filter_new_tenders(extracted, SiteOf(scraper), DJANGO_AVAILABLE,
                                       tendersite, tenders_tender, dbRaises).value
  /\ pc' = "Exporting"
  /\ UNCHANGED <<runs, attempt, slept, extracted, ret, exportRet, failedAt, io,
                 storeAtStart, xlsxAtStart, fileVars>>

\* An export step that treats an empty batch as a failed attempt.
Export_RetriesOnEmpty(fault) ==
  /\ pc = "Exporting"
  /\ UNCHANGED envVars
  /\ IF new_tenders = <<>>
     THEN /\ fault = "none"
          /\ Fail
     ELSE /\ fault \in ApplicableFaults(scraper, jsonStore)
          /\ LET e == export_data(scraper, new_tenders, jsonStore, xlsx, dataTxt, fault) IN
             /\ jsonStore' = e.json
             /\ xlsx' = e.xlsx
             /\ dataTxt' = e.txt
             /\ io' = fault
             /\ exportRet' = ExportReturn(scraper, e.raised)
             /\ pc' = "Returned"
             /\ IF scraper = "adm" /\ e.raised
                THEN /\ ret' = FailureOutcome(scraper)
                     /\ failedAt' = "Exporting"
                ELSE /\ ret' = [kind |-> "list", value |-> new_tenders]
                     /\ failedAt' = IF e.raised THEN "Exporting" ELSE "none"
          /\ UNCHANGED <<runs, attempt, slept, extracted, new_tenders, storeAtStart, xlsxAtStart>>

\* if new_tenders: export and return them; else: return []
Export(fault) ==
  /\ pc = "Exporting"
  /\ UNCHANGED envVars
  /\ IF new_tenders = <<>>
     THEN /\ fault = "none"
          /\ pc' = "Returned"
          /\ ret' = [kind |-> "list", value |-> <<>>]
          /\ UNCHANGED <<runs, attempt, slept, extracted, new_tenders, exportRet, failedAt, io,
                         storeAtStart, xlsxAtStart, fileVars>>
     ELSE /\ fault \in ApplicableFaults(scraper, jsonStore)
          /\ LET e == export_data(scraper, new_tenders, jsonStore, xlsx, dataTxt, fault) IN
             /\ jsonStore' = e.json
             /\ xlsx' = e.xlsx
             /\ dataTxt' = e.txt
             /\ io' = fault
             /\ exportRet' = ExportReturn(scraper, e.raised)
             /\ pc' = "Returned"
             /\ IF scraper = "adm" /\ e.raised
                THEN /\ ret' = FailureOutcome(scraper)
                     /\ failedAt' = "Exporting"
                ELSE /\ ret' = [kind |-> "list", value |-> new_tenders]
                     /\ failedAt' = IF e.raised THEN "Exporting" ELSE "none"
          /\ UNCHANGED <<runs, attempt, slept, extracted, new_tenders, storeAtStart, xlsxAtStart>>

InitScrape ==
  /\ scraper \in Scrapers
  /\ DJANGO_AVAILABLE \in BOOLEAN
  /\ tendersite \in {{}, {SiteOf(scraper)}}
  /\ tenders_tender \in
       {{}} \cup {{[title |-> <<"a">>, site |-> n]} : n \in tendersite}
  /\ call = NoCall
  /\ dom = <<>>
  /\ InitRunVars
  /\ InitNoWeb
  /\ InitNoCommand
  /\ InitNoDate

NextExtract == \E page \in Pages : Extract(page)
NextDeduplicate == \E f \in BOOLEAN : Deduplicate(f)
NextExport == \E f \in IoFaults : Export(f)

NextScrape ==
  StartRun \/ StepOk \/ StepFails \/ NextExtract \/ NextDeduplicate \/ NextExport

SpecScrape == InitScrape /\ [][NextScrape]_vars

\* A started run goes on: a wait that is not satisfied times out, and the
\* extraction loop, the gateway call and the export step are carried out.
\* Nothing makes the portal answer, and nothing starts a run.
FairScrape ==
  /\ WF_vars(StepFails)
  /\ WF_vars(NextExtract)
  /\ WF_vars(NextDeduplicate)
  /\ WF_vars(NextExport)

SpecScrapeFair == SpecScrape /\ FairScrape

(***************************************************************************)
(* Runs of a scraper against a portal that serves the same listing page on  *)
(* every run, with the Django backend not configured (the gateway hands the *)
(* batch back unchanged).                                                   *)
(***************************************************************************)
InitExtract ==
  /\ scraper \in Scrapers
  /\ dom \in Pages
  /\ DJANGO_AVAILABLE = FALSE
  /\ tendersite = {}
  /\ tenders_tender = {}
  /\ call = NoCall
  /\ InitRunVars
  /\ InitNoWeb
  /\ InitNoCommand
  /\ InitNoDate

ExtractDom == Extract(dom)

NextExtractSpec ==
  StartRun \/ StepOk \/ StepFails \/ ExtractDom \/ NextDeduplicate \/ NextExport

SpecExtract == InitExtract /\ [][NextExtractSpec]_vars

(***************************************************************************)
(* run_scraper.Command.handle, one action per database operation.  The site *)
(* is stored under the name given on the command line, which is the name of *)
(* the scraper's directory.                                                 *)
(***************************************************************************)
nonCmdVars == <<DJANGO_AVAILABLE, tenders_tender, call, scraper, dom, dateVars, webVars, runVars,
                fileVars>>

\* A ScrapingLog row of the site is in status 'running'.
running_logs_exists(site) ==
  \E q \in Procs : scrapinglog[q].site = site /\ scrapinglog[q].status = "running"

\* The command ends with CommandError before any log row was created.
CommandFails(p) ==
  cmd' = [cmd EXCEPT ![p].pc = "done", ![p].out = "CommandError"]

\* site = TenderSite.objects.get(name=site_name)
GetSite(p) ==
  /\ cmd[p].pc = "get_site"
  /\ cmd' = [cmd EXCEPT ![p].pc =
               IF scraper \in tendersite THEN "check_running" ELSE "create_site"]
  /\ UNCHANGED <<force, scrapinglog, tendersite, nonCmdVars>>

\* except TenderSite.DoesNotExist: TenderSite.objects.create(name=site_name, ...)
\* name is unique: the insert raises IntegrityError when the row exists by now.
CreateSite(p) ==
  /\ cmd[p].pc = "create_site"
  /\ IF scraper \in tendersite
     THEN /\ CommandFails(p)
          /\ UNCHANGED tendersite
     ELSE /\ tendersite' = tendersite \cup {scraper}
          /\ cmd' = [cmd EXCEPT ![p].pc = "check_running"]
  /\ UNCHANGED <<force, scrapinglog, nonCmdVars>>

\* if not force: if running_logs.exists(): raise CommandError(...)
CheckRunning(p) ==
  /\ cmd[p].pc = "check_running"
  /\ IF ~force[p] /\ running_logs_exists(scraper)
     THEN CommandFails(p)
     ELSE cmd' = [cmd EXCEPT ![p].pc = "create_log"]
  /\ UNCHANGED <<force, scrapinglog, tendersite, nonCmdVars>>

\* log = ScrapingLog.objects.create(site=site, status='running', ...)
CreateLog(p) ==
  /\ cmd[p].pc = "create_log"
  /\ scrapinglog' = [scrapinglog EXCEPT ![p] = RunningLog(scraper)]
  /\ cmd' = [cmd EXCEPT ![p].pc = "scrape"]
  /\ UNCHANGED <<force, tendersite, nonCmdVars>>

\* result = scraper.scrape(), then the update of the log: 'completed' when
\* scrape() returned (a list is neither a dict nor an int, the counters stay
\* 0), 'failed' with str(e) when it raised.  stepFails: a step of the run
\* could not be completed.
RunScrape(p, stepFails) ==
  /\ cmd[p].pc = "scrape"
  /\ LET result == IF stepFails THEN FailureOutcome(scraper)
                   ELSE [kind |-> "list", value |-> <<>>]
     IN  IF result.kind = "raised"
         THEN /\ scrapinglog' = [scrapinglog EXCEPT ![p].status = "failed",
                                                    ![p].completed_at = TRUE,
                                                    ![p].error_message = "str(e)"]
              /\ cmd' = [cmd EXCEPT ![p].pc = "done", ![p].stepFailed = stepFails,
                                    ![p].out = "CommandError"]
         ELSE /\ scrapinglog' = [scrapinglog EXCEPT ![p].status = "completed",
                                                    ![p].completed_at = TRUE]
              /\ cmd' = [cmd EXCEPT ![p].pc = "done", ![p].stepFailed = stepFails,
                                    ![p].out = "success"]
  /\ UNCHANGED <<force, tendersite, nonCmdVars>>

InitRun ==
  /\ scraper \in Scrapers
  /\ DJANGO_AVAILABLE = TRUE
  /\ tendersite \in {{}, {scraper}}
  /\ tenders_tender = {}
  /\ call = NoCall
  /\ dom = <<>>
  /\ force \in [Procs -> BOOLEAN]
  /\ cmd = [p \in Procs |-> NotStarted]
  /\ scrapinglog = [p \in Procs |-> NoLog]
  /\ InitNoDate
  /\ InitRunVars
  /\ InitNoWeb

NextGetSite == \E p \in Procs : GetSite(p)
NextCreateSite == \E p \in Procs : CreateSite(p)
NextCheckRunning == \E p \in Procs : CheckRunning(p)
NextCreateLog == \E p \in Procs : CreateLog(p)
NextRunScrape == \E p \in Procs, stepFails \in BOOLEAN : RunScrape(p, stepFails)

NextRun ==
  NextGetSite \/ NextCreateSite \/ NextCheckRunning \/ NextCreateLog \/ NextRunScrape

SpecRun == InitRun /\ [][NextRun]_vars

(***************************************************************************)
(* run_scraper with a scraper module of any kind: handle() loads whatever   *)
(* Backend/scrapers/<site_name>/scraper.py holds.                           *)
(***************************************************************************)
\* A scraper directory beside the six.
CustomScraper == "custom"

\* What the loaded scraper does: scrape() returns a list, a count, a negative
\* number or a dictionary of counters, it raises, or the class has neither a
\* scrape nor a run method.
ScraperBehaviours == {"list", "count", "negative", "dict", "raises", "no_method"}

\* log.items_found after `if isinstance(result, dict) ... elif isinstance(result, int)`
ItemsFound(behaviour) ==
  CASE behaviour = "count" -> 3
    [] behaviour = "negative" -> 0 - 1
    [] behaviour = "dict" -> 2
    [] OTHER -> 0

\* items_found is a PositiveIntegerField: the database rejects the row
\* (IntegrityError) when it is negative.
SaveRaises(log) == log.items_found < 0

\* log.status = 'failed'; log.completed_at = now; log.error_message = str(e)
FailedLog(log) ==
  [log EXCEPT !.status = "failed", !.completed_at = TRUE, !.error_message = "str(e)"]

\* The try block after the log was created, and its except clause.  log is
\* the object in memory; the row of the table changes when log.save()
\* succeeds.
RunAnyScraper(p, behaviour) ==
  /\ cmd[p].pc = "scrape"
  /\ LET raised == behaviour \in {"raises", "no_method"}
         completed == [scrapinglog[p] EXCEPT !.status = "completed", !.completed_at = TRUE,
                                      !.items_found = ItemsFound(behaviour)]
         log == IF raised THEN FailedLog(scrapinglog[p]) ELSE FailedLog(completed)
     IN  IF ~raised /\ ~SaveRaises(completed)
         THEN /\ scrapinglog' = [scrapinglog EXCEPT ![p] = completed]
              /\ cmd' = [cmd EXCEPT ![p].pc = "done", ![p].out = "success"]
         ELSE /\ scrapinglog' = IF SaveRaises(log) THEN scrapinglog
                                 ELSE [scrapinglog EXCEPT ![p] = log]
              /\ cmd' = [cmd EXCEPT ![p].pc = "done", ![p].stepFailed = raised,
                                    ![p].out = "CommandError"]
  /\ UNCHANGED <<force, tendersite, nonCmdVars>>

InitRunAny ==
  /\ scraper = CustomScraper
  /\ DJANGO_AVAILABLE = TRUE
  /\ tendersite \in {{}, {scraper}}
  /\ tenders_tender = {}
  /\ call = NoCall
  /\ dom = <<>>
  /\ force \in [Procs -> BOOLEAN]
  /\ cmd = [p \in Procs |-> NotStarted]
  /\ scrapinglog = [p \in Procs |-> NoLog]
  /\ InitNoDate
  /\ InitRunVars
  /\ InitNoWeb

NextRunAnyScraper == \E p \in Procs, b \in ScraperBehaviours : RunAnyScraper(p, b)

NextRunAny ==
  NextGetSite \/ NextCreateSite \/ NextCheckRunning \/ NextCreateLog \/ NextRunAnyScraper

SpecRunAny == InitRunAny /\ [][NextRunAny]_vars

(***************************************************************************)
(* services.convert_date_to_standard_format.  A text is the sequence of its *)
(* characters.  The month names are those of the source file, in which the  *)
(* accented letters are stored as two characters each.                      *)
(***************************************************************************)
Digits == <<"0", "1", "2", "3", "4", "5", "6", "7", "8", "9">>

IsDigit(c) == \E n \in 1..10 : Digits[n] = c

DigitVal(c) == (CHOOSE n \in 1..10 : Digits[n] = c) - 1

\* int(s) for a run of digits
RECURSIVE ToInt(_)
ToInt(s) ==
  IF s = <<>> THEN 0
  ELSE 10 * ToInt(SubSeq(s, 1, Len(s) - 1)) + DigitVal(s[Len(s)])

\* str(n) for n >= 0
RECURSIVE ToDigits(_)
ToDigits(n) ==
  IF n < 10 THEN <<Digits[n + 1]>>
  ELSE ToDigits(n \div 10) \o <<Digits[(n % 10) + 1]>>

\* str.zfill(width)
RECURSIVE zfill(_, _)
zfill(s, width) == IF Len(s) >= width THEN s ELSE zfill(<<"0">> \o s, width)

\* \w of the regular expressions: letters and digits.
Letters == {"a", "b", "c", "d", "e", "f", "g", "h", "i", "j", "k", "l", "m", "n",
            "o", "p", "q", "r", "s", "t", "u", "v", "w", "x", "y", "z",
            "é", "û", "ã"}

IsWordChar(c) == IsDigit(c) \/ c \in Letters

\* The character at index i, "" outside the text.
CharAt(t, i) == IF i \in 1..Len(t) THEN t[i] ELSE ""

\* \d{k} matches at index i.
DigitsRun(t, i, k) ==
  /\ i >= 1
  /\ i + k - 1 <= Len(t)
  /\ \A j \in i..(i + k - 1) : IsDigit(t[j])

StartsWith(t, i, w) ==
  /\ i >= 1
  /\ i + Len(w) - 1 <= Len(t)
  /\ SubSeq(t, i, i + Len(w) - 1) = w

\* w in t
Contains(t, w) == \E i \in 1..Len(t) : StartsWith(t, i, w)

\* The index that follows the run of spaces starting at i.
RECURSIVE SkipSpaces(_, _)
SkipSpaces(t, i) == IF IsSpace(CharAt(t, i)) THEN SkipSpaces(t, i + 1) ELSE i

\* french_months, in the order of the dictionary literal.
french_months ==
  <<[name |-> <<"j", "a", "n", "v", "i", "e", "r">>, month |-> <<"0", "1">>],
    [name |-> <<"f", "Ã", "©", "v", "r", "i", "e", "r">>, month |-> <<"0", "2">>],
    [name |-> <<"m", "a", "r", "s">>, month |-> <<"0", "3">>],
    [name |-> <<"a", "v", "r", "i", "l">>, month |-> <<"0", "4">>],
    [name |-> <<"m", "a", "i">>, month |-> <<"0", "5">>],
    [name |-> <<"j", "u", "i", "n">>, month |-> <<"0", "6">>],
    [name |-> <<"j", "u", "i", "l", "l", "e", "t">>, month |-> <<"0", "7">>],
    [name |-> <<"a", "o", "Ã", "»", "t">>, month |-> <<"0", "8">>],
    [name |-> <<"s", "e", "p", "t", "e", "m", "b", "r", "e">>, month |-> <<"0", "9">>],
    [name |-> <<"o", "c", "t", "o", "b", "r", "e">>, month |-> <<"1", "0">>],
    [name |-> <<"n", "o", "v", "e", "m", "b", "r", "e">>, month |-> <<"1", "1">>],
    [name |-> <<"d", "Ã", "©", "c", "e", "m", "b", "r", "e">>, month |-> <<"1", "2">>]>> \o
  <<[name |-> <<"j", "a", "n">>, month |-> <<"0", "1">>],
    [name |-> <<"f", "Ã", "©", "v">>, month |-> <<"0", "2">>],
    [name |-> <<"m", "a", "r">>, month |-> <<"0", "3">>],
    [name |-> <<"a", "v", "r">>, month |-> <<"0", "4">>],
    [name |-> <<"m", "a", "i">>, month |-> <<"0", "5">>],
    [name |-> <<"j", "u", "n">>, month |-> <<"0", "6">>],
    [name |-> <<"j", "u", "l">>, month |-> <<"0", "7">>],
    [name |-> <<"a", "o", "Ã", "»">>, month |-> <<"0", "8">>],
    [name |-> <<"s", "e", "p">>, month |-> <<"0", "9">>],
    [name |-> <<"o", "c", "t">>, month |-> <<"1", "0">>],
    [name |-> <<"n", "o", "v">>, month |-> <<"1", "1">>],
    [name |-> <<"d", "Ã", "©", "c">>, month |-> <<"1", "2">>]>>

english_months ==
  <<[name |-> <<"j", "a", "n", "u", "a", "r", "y">>, month |-> <<"0", "1">>],
    [name |-> <<"f", "e", "b", "r", "u", "a", "r", "y">>, month |-> <<"0", "2">>],
    [name |-> <<"m", "a", "r", "c", "h">>, month |-> <<"0", "3">>],
    [name |-> <<"a", "p", "r", "i", "l">>, month |-> <<"0", "4">>],
    [name |-> <<"m", "a", "y">>, month |-> <<"0", "5">>],
    [name |-> <<"j", "u", "n", "e">>, month |-> <<"0", "6">>],
    [name |-> <<"j", "u", "l", "y">>, month |-> <<"0", "7">>],
    [name |-> <<"a", "u", "g", "u", "s", "t">>, month |-> <<"0", "8">>],
    [name |-> <<"s", "e", "p", "t", "e", "m", "b", "e", "r">>, month |-> <<"0", "9">>],
    [name |-> <<"o", "c", "t", "o", "b", "e", "r">>, month |-> <<"1", "0">>],
    [name |-> <<"n", "o", "v", "e", "m", "b", "e", "r">>, month |-> <<"1", "1">>],
    [name |-> <<"d", "e", "c", "e", "m", "b", "e", "r">>, month |-> <<"1", "2">>]>>

\* dict.get(key): the value of the last entry with that key, or <<>> (None).
months_get(months, key) ==
  LET hits == {k \in 1..Len(months) : months[k].name = key}
  IN  IF hits = {} THEN <<>>
      ELSE months[CHOOSE k \in hits : \A h \in hits : h <= k].month

\* any(month in text for month in months.keys())
AnyMonthIn(months, t) == \E k \in 1..Len(months) : Contains(t, months[k].name)

\* The alternatives of the month groups of the three patterns with names.
AbbrAndFullFrench ==
  <<<<"j", "a", "n">>,
    <<"f", "Ã", "©", "v">>,
    <<"m", "a", "r">>,
    <<"a", "v", "r">>,
    <<"m", "a", "i">>,
    <<"j", "u", "n">>,
    <<"j", "u", "l">>,
    <<"a", "o", "Ã", "»">>,
    <<"s", "e", "p">>,
    <<"o", "c", "t">>,
    <<"n", "o", "v">>,
    <<"d", "Ã", "©", "c">>,
    <<"j", "a", "n", "v", "i", "e", "r">>,
    <<"f", "Ã", "©", "v", "r", "i", "e", "r">>,
    <<"m", "a", "r", "s">>,
    <<"a", "v", "r", "i", "l">>,
    <<"m", "a", "i">>,
    <<"j", "u", "i", "n">>,
    <<"j", "u", "i", "l", "l", "e", "t">>,
    <<"a", "o", "Ã", "»", "t">>,
    <<"s", "e", "p", "t", "e", "m", "b", "r", "e">>,
    <<"o", "c", "t", "o", "b", "r", "e">>,
    <<"n", "o", "v", "e", "m", "b", "r", "e">>,
    <<"d", "Ã", "©", "c", "e", "m", "b", "r", "e">>>>

FullFrench ==
  <<<<"j", "a", "n", "v", "i", "e", "r">>,
    <<"f", "Ã", "©", "v", "r", "i", "e", "r">>,
    <<"m", "a", "r", "s">>,
    <<"a", "v", "r", "i", "l">>,
    <<"m", "a", "i">>,
    <<"j", "u", "i", "n">>,
    <<"j", "u", "i", "l", "l", "e", "t">>,
    <<"a", "o", "Ã", "»", "t">>,
    <<"s", "e", "p", "t", "e", "m", "b", "r", "e">>,
    <<"o", "c", "t", "o", "b", "r", "e">>,
    <<"n", "o", "v", "e", "m", "b", "r", "e">>,
    <<"d", "Ã", "©", "c", "e", "m", "b", "r", "e">>>>

English ==
  <<<<"j", "a", "n", "u", "a", "r", "y">>,
    <<"f", "e", "b", "r", "u", "a", "r", "y">>,
    <<"m", "a", "r", "c", "h">>,
    <<"a", "p", "r", "i", "l">>,
    <<"m", "a", "y">>,
    <<"j", "u", "n", "e">>,
    <<"j", "u", "l", "y">>,
    <<"a", "u", "g", "u", "s", "t">>,
    <<"s", "e", "p", "t", "e", "m", "b", "e", "r">>,
    <<"o", "c", "t", "o", "b", "e", "r">>,
    <<"n", "o", "v", "e", "m", "b", "e", "r">>,
    <<"d", "e", "c", "e", "m", "b", "e", "r">>>>

\* The result of re.search: the matched text and its groups.
NoMatch == [found |-> FALSE, group0 |-> <<>>, groups |-> <<>>]

Match(g0, gs) == [found |-> TRUE, group0 |-> g0, groups |-> gs]

\* (\d{la})sep(\d{lb})sep(\d{lc}) tried at index i; la, lb and lc are the
\* sets of lengths the three quantifiers allow.  The separators fix the
\* lengths of the first two groups; the last one is greedy.
NumericAt(t, i, la, lb, lc, sep) ==
  LET fits == {x \in la \X lb \X lc :
                 /\ DigitsRun(t, i, x[1])
                 /\ CharAt(t, i + x[1]) = sep
                 /\ DigitsRun(t, i + x[1] + 1, x[2])
                 /\ CharAt(t, i + x[1] + x[2] + 1) = sep
                 /\ DigitsRun(t, i + x[1] + x[2] + 2, x[3])}
  IN  IF fits = {} THEN NoMatch
      ELSE LET x == CHOOSE x \in fits : \A y \in fits : y[3] <= x[3]
               b == i + x[1] + 1
               c == b + x[2] + 1
           IN  Match(SubSeq(t, i, c + x[3] - 1),
                     <<SubSeq(t, i, i + x[1] - 1), SubSeq(t, b, b + x[2] - 1),
                       SubSeq(t, c, c + x[3] - 1)>>)

\* (\d{1,2})\s+(name|...)\s+(\d{4}) tried at index i.
DayMonthYearAt(t, i, names) ==
  LET fits == {x \in {1, 2} \X (1..Len(names)) :
                 /\ DigitsRun(t, i, x[1])
                 /\ IsSpace(CharAt(t, i + x[1]))
                 /\ LET m == SkipSpaces(t, i + x[1])
                        e == m + Len(names[x[2]])
                    IN  /\ StartsWith(t, m, names[x[2]])
                        /\ IsSpace(CharAt(t, e))
                        /\ DigitsRun(t, SkipSpaces(t, e), 4)}
  IN  IF fits = {} THEN NoMatch
      ELSE LET x == CHOOSE x \in fits : TRUE
               m == SkipSpaces(t, i + x[1])
               y == SkipSpaces(t, m + Len(names[x[2]]))
           IN  Match(SubSeq(t, i, y + 3),
                     <<SubSeq(t, i, i + x[1] - 1), names[x[2]], SubSeq(t, y, y + 3)>>)

\* \w+\s+ followed by the day, month and year, tried at index i.
WeekdayDayMonthYearAt(t, i) ==
  LET ends == {e \in i..Len(t) :
                 /\ \A j \in i..e : IsWordChar(t[j])
                 /\ IsSpace(CharAt(t, e + 1))
                 /\ DayMonthYearAt(t, SkipSpaces(t, e + 1), AbbrAndFullFrench).found}
  IN  IF ends = {} THEN NoMatch
      ELSE LET e == CHOOSE e \in ends : TRUE
               d == SkipSpaces(t, e + 1)
               r == DayMonthYearAt(t, d, AbbrAndFullFrench)
           IN  Match(SubSeq(t, i, d + Len(r.group0) - 1), r.groups)

\* (name|...)\s+(\d{1,2}),?\s+(\d{4}) tried at index i.
MonthDayYearAt(t, i) ==
  LET AfterComma(c) == IF CharAt(t, c) = "," THEN c + 1 ELSE c
      fits == {x \in (1..Len(English)) \X {1, 2} :
                 /\ StartsWith(t, i, English[x[1]])
                 /\ IsSpace(CharAt(t, i + Len(English[x[1]])))
                 /\ LET d == SkipSpaces(t, i + Len(English[x[1]]))
                        c == AfterComma(d + x[2])
                    IN  /\ DigitsRun(t, d, x[2])
                        /\ IsSpace(CharAt(t, c))
                        /\ DigitsRun(t, SkipSpaces(t, c), 4)}
  IN  IF fits = {} THEN NoMatch
      ELSE LET x == CHOOSE x \in fits : \A z \in fits : z[2] <= x[2]
               d == SkipSpaces(t, i + Len(English[x[1]]))
               y == SkipSpaces(t, AfterComma(d + x[2]))
           IN  Match(SubSeq(t, i, y + 3),
                     <<English[x[1]], SubSeq(t, d, d + x[2] - 1), SubSeq(t, y, y + 3)>>)

\* The eight entries of patterns, in order, each tried at index i.
PatternAt(k, t, i) ==
  CASE k = 1 -> NumericAt(t, i, {1, 2}, {1, 2}, {4}, "/")
    [] k = 2 -> NumericAt(t, i, {1, 2}, {1, 2}, {4}, "-")
    [] k = 3 -> NumericAt(t, i, {1, 2}, {1, 2}, {4}, ".")
    [] k = 4 -> NumericAt(t, i, {4}, {1, 2}, {1, 2}, "-")
    [] k = 5 -> NumericAt(t, i, {1, 2}, {1, 2}, {2}, "/")
    [] k = 6 -> WeekdayDayMonthYearAt(t, i)
    [] k = 7 -> DayMonthYearAt(t, i, FullFrench)
    [] k = 8 -> MonthDayYearAt(t, i)

\* Op applied to the value of v, which is computed once.
Bind(Op(_), v) == CHOOSE r \in {Op(x) : x \in {v}} : TRUE

\* Of the pairs <<index, match>>, the match with the least index.
Leftmost(found) ==
  IF found = {} THEN NoMatch
  ELSE (CHOOSE m \in found : \A n \in found : m[1] <= n[1])[2]

\* re.search(patterns[k], t): the match at the leftmost index that has one.
re_search(k, t) ==
  Leftmost({m \in {<<i, PatternAt(k, t, i)>> : i \in 1..Len(t)} : m[2].found})

IsLeap(y) == (y % 4 = 0 /\ y % 100 # 0) \/ y % 400 = 0

DaysInMonth(m, y) ==
  CASE m = 2 -> IF IsLeap(y) THEN 29 ELSE 28
    [] m \in {4, 6, 9, 11} -> 30
    [] OTHER -> 31

\* datetime.strptime(match.group(0), date_format) for the five numeric
\* patterns: %d takes 1..31, %m 1..12, %Y four digits, %y two digits (00-68
\* are 2000-2068, 69-99 are 1969-1999); the date must exist.  ok = FALSE is
\* ValueError.
strptime(k, groups) ==
  LET day == ToInt(IF k = 4 THEN groups[3] ELSE groups[1])
      month == ToInt(groups[2])
      yy == ToInt(IF k = 4 THEN groups[1] ELSE groups[3])
      year == IF k # 5 THEN yy ELSE IF yy <= 68 THEN 2000 + yy ELSE 1900 + yy
  IN  [ok |-> /\ day \in 1..31
              /\ month \in 1..12
              /\ year >= 1
              /\ day <= DaysInMonth(month, year),
       year |-> year, month |-> month, day |-> day]

Dash == <<"-">>

\* date_obj.strftime('%Y-%m-%d')
strftime(date_obj) ==
  ToDigits(date_obj.year) \o Dash \o zfill(ToDigits(date_obj.month), 2)
    \o Dash \o zfill(ToDigits(date_obj.day), 2)

NoneValue == [kind |-> "None", text |-> <<>>]

Str(t) == [kind |-> "str", text |-> t]

\* re.findall(r'\d+', t): the maximal runs of digits, in order.
DigitRuns(t) ==
  LET starts == {i \in 1..Len(t) : IsDigit(t[i]) /\ ~IsDigit(CharAt(t, i - 1))}
      Nth(k) == CHOOSE i \in starts : Cardinality({j \in starts : j < i}) = k - 1
      RunFrom(i) ==
        SubSeq(t, i, CHOOSE e \in i..Len(t) :
                       DigitsRun(t, i, e - i + 1) /\ ~IsDigit(CharAt(t, e + 1)))
  IN  [k \in 1..Cardinality(starts) |-> RunFrom(Nth(k))]

\* The last resort: the first three runs of digits read as day, month, year.
NumbersFallback(t) ==
  LET numbers == DigitRuns(t) IN
  IF Len(numbers) < 3 THEN NoneValue
  ELSE LET day == numbers[1]
           month == numbers[2]
           year == IF Len(numbers[3]) # 2 THEN numbers[3]
                   ELSE IF ToInt(numbers[3]) < 50 THEN <<"2", "0">> \o numbers[3]
                   ELSE <<"1", "9">> \o numbers[3]
       IN  IF /\ ToInt(day) \in 1..31
              /\ ToInt(month) \in 1..12
              /\ ToInt(year) \in 1900..2100
           THEN Str(year \o Dash \o zfill(month, 2) \o Dash \o zfill(day, 2))
           ELSE NoneValue

Continue == [returns |-> FALSE, value |-> NoneValue]

Return(v) == [returns |-> TRUE, value |-> v]

\* date_obj = datetime.strptime(...); return date_obj.strftime('%Y-%m-%d')
\* except ValueError: continue
StrptimeOutcome(date_obj) ==
  IF date_obj.ok THEN Return(Str(strftime(date_obj))) ELSE Continue

\* if month: return f"{year}-{month.zfill(2)}-{day.zfill(2)}"
MonthOutcome(month, day, year) ==
  IF month # <<>>
  THEN Return(Str(year \o Dash \o zfill(month, 2) \o Dash \o zfill(day, 2)))
  ELSE Continue

\* The body of `if match:` for entry k of patterns.
MatchOutcome(k, low, match) ==
  IF ~match.found THEN Continue
  ELSE IF k <= 5
  THEN Bind(StrptimeOutcome, strptime(k, match.groups))
  ELSE IF AnyMonthIn(french_months, low)
  THEN MonthOutcome(months_get(french_months, match.groups[2]),
                    match.groups[1], match.groups[3])
  ELSE IF AnyMonthIn(english_months, low)
  THEN MonthOutcome(months_get(english_months, match.groups[1]),
                    match.groups[2], match.groups[3])
  ELSE Continue

\* One iteration of `for pattern, date_format in patterns`, for entry k, over
\* the lower-case text: the value it returns, or Continue when the loop goes
\* on to the next entry (no match, ValueError, or no month found).
PatternOutcome(k, low) ==
  Bind(LAMBDA match : MatchOutcome(k, low, match), re_search(k, low))

\* Of the pairs <<k, outcome>>, the value of the first entry that returns,
\* or the fallback when none does.
FirstReturn(returning, text) ==
  IF returning = {} THEN NumbersFallback(text)
  ELSE (CHOOSE o \in returning : \A q \in returning : o[1] <= q[1])[2].value

\* The loop over the eight entries, then the fallback.
TryPatterns(text, low) ==
  FirstReturn({o \in {<<k, PatternOutcome(k, low)>> : k \in 1..8} : o[2].returns}, text)

NotSpecified ==
  <<"N", "o", "n", " ", "s", "p", "Ã", "©", "c", "i", "f", "i", "Ã", "©", "e">>

convert_date_to_standard_format(date_text_arg) ==
  IF date_text_arg = <<>> \/ Strip(date_text_arg) \in {NA, <<>>, NotSpecified}
  THEN NoneValue
  ELSE TryPatterns(Strip(date_text_arg), Lower(Strip(date_text_arg)))

(***************************************************************************)
(* The texts the conversion is applied to.                                  *)
(***************************************************************************)
SlashDate == <<"2", "7", "/", "0", "8", "/", "2", "0", "2", "5">>

DashDate == <<"2", "7", "-", "0", "8", "-", "2", "0", "2", "5">>

IsoDate == <<"2", "0", "2", "5", "-", "0", "8", "-", "2", "7">>

FrenchDate == <<"2", "7", " ", "a", "o", "û", "t", " ", "2", "0", "2", "5">>

EnglishDate == <<"A", "u", "g", "u", "s", "t", " ", "2", "7", ",", " ", "2", "0", "2", "5">>

GarbageText == <<"g", "a", "r", "b", "a", "g", "e", " ", "t", "e", "x", "t">>

\* Other texts of the kinds the portals show.
OtherDateTexts ==
  {<<"M", "e", "r", " ", "2", "7", " ", "A", "o", "û", " ", "2", "0", "2", "5">>,
   <<"2", "7", " ", "m", "a", "r", "s", " ", "2", "0", "2", "5">>,
   <<"2", "7", " ", "m", "a", "i", " ", "2", "0", "2", "5">>,
   <<"M", "a", "r", "c", "h", " ", "2", "7", ",", " ", "2", "0", "2", "5">>,
   <<"M", "a", "y", " ", "2", "7", ",", " ", "2", "0", "2", "5">>,
   <<"2", "7", " ", "a", "o", "Ã", "»", "t", " ", "2", "0", "2", "5">>,
   <<" ", "2", "7", "/", "0", "8", "/", "2", "0", "2", "5", " ">>,
   <<"2", "7", "/", "0", "8", "/", "2", "5">>,
   <<"1", "/", "2", "/", "2", "0", "2", "5", " ", "1", "0", ":", "0", "0">>,
   <<"N", "o", "n", " ", "s", "p", "Ã", "©", "c", "i", "f", "i", "Ã", "©", "e">>}

\* Dates written the English way, "March 5, 2025": the month names of
\* english_months with a capital initial.
Capitals == {"A", "C", "D", "F", "G", "I", "J", "M", "N", "O", "S"}

Capitalized(w) == <<CHOOSE u \in Capitals : LowerChar(u) = w[1]>> \o Tail(w)

EnglishDays == {1, 9, 10, 28}
EnglishYears == {1999, 2025}

EnglishText(m, d, y) ==
  Capitalized(English[m]) \o <<" ">> \o ToDigits(d) \o <<",", " ">> \o ToDigits(y)

EnglishTexts ==
  {EnglishText(m, d, y) : m \in 1..12, d \in EnglishDays, y \in EnglishYears}

DayNumbers == {0, 1, 27, 28, 29, 30, 31, 32, 99}
MonthNumbers == {0, 1, 2, 4, 8, 12, 13, 99}
YearNumbers == {2024, 2025}
Separators == {"/", "-", "."}

\* DD<sep>MM<sep>YYYY, two digits for the day and the month.
NumericText(d, m, y, sep) ==
  zfill(ToDigits(d), 2) \o <<sep>> \o zfill(ToDigits(m), 2) \o <<sep>> \o ToDigits(y)

\* YYYY-MM-DD
IsoText(d, m, y) ==
  ToDigits(y) \o Dash \o zfill(ToDigits(m), 2) \o Dash \o zfill(ToDigits(d), 2)

NumericTexts ==
  {NumericText(d, m, y, sep) :
     d \in DayNumbers, m \in MonthNumbers, y \in YearNumbers, sep \in Separators}
  \cup {IsoText(d, m, y) : d \in DayNumbers, m \in MonthNumbers, y \in YearNumbers}

DateInputs ==
  {SlashDate, DashDate, IsoDate, FrenchDate, EnglishDate, GarbageText, NA, <<>>}
    \cup OtherDateTexts \cup NumericTexts \cup EnglishTexts

\* formatted_date = convert_date_to_standard_format(date_text)
ConvertDate ==
  /\ formatted_date = NotConverted
  /\ formatted_date' = convert_date_to_standard_format(date_text)
  /\ UNCHANGED <<date_text, DJANGO_AVAILABLE, tendersite, tenders_tender, call, scraper,
                 dom, cmdVars, webVars, runVars, fileVars>>

InitDate ==
  /\ date_text \in DateInputs
  /\ formatted_date = NotConverted
  /\ DJANGO_AVAILABLE = TRUE
  /\ tendersite = {}
  /\ tenders_tender = {}
  /\ call = NoCall
  /\ scraper = "marsamaroc"
  /\ dom = <<>>
  /\ InitRunVars
  /\ InitNoWeb
  /\ InitNoCommand

NextDate == ConvertDate

SpecDate == InitDate /\ [][NextDate]_vars

(***************************************************************************)
(* The site names of the two management commands.  run_scraper stores the   *)
(* site under its site_name argument, the name of the scraper's directory;  *)
(* import_json_tenders under site_mapping.get(folder, folder.title()).      *)
(***************************************************************************)
\* The characters of the directory names that site_mapping does not hold,
\* and of their spellings with capitals.
Text(name) ==
  CASE name = "cgi" -> <<"c", "g", "i">>
    [] name = "Cgi" -> <<"C", "g", "i">>
    [] name = "CGI" -> <<"C", "G", "I">>

FromText(t) == CHOOSE name \in {"cgi", "Cgi", "CGI"} : Text(name) = t

UpperChar(c) ==
  IF \E u \in Capitals : LowerChar(u) = c
  THEN CHOOSE u \in Capitals : LowerChar(u) = c
  ELSE c

\* str.title(): a capital at the start of each word, small letters after it.
str_title(w) ==
  [i \in 1..Len(w) |->
     IF i = 1 \/ ~(w[i - 1] \in Letters \cup Capitals)
     THEN UpperChar(w[i]) ELSE LowerChar(w[i])]

\* import_json_tenders: site_mapping
site_mapping ==
  [adm |-> "ADM - Autoroutes du Maroc",
   marchespublics |-> "Marchés Publics",
   marsamaroc |-> "Marsa Maroc",
   offresonline |-> "Offres Online",
   royalairmaroc |-> "Royal Air Maroc"]

\* site_name = site_mapping.get(site_folder, site_folder.title())
import_site_name(site_folder) ==
  IF site_folder \in DOMAIN site_mapping THEN site_mapping[site_folder]
  ELSE FromText(str_title(Text(site_folder)))

\* process_tender for each record of the file: the title is the trimmed
\* objet, a record without one is skipped, a record whose hash (title, link,
\* site) is stored already is skipped.  A row of the model is a title and a
\* site.
RECURSIVE ImportLoop(_, _, _)
ImportLoop(tenders_data, site, rows) ==
  IF tenders_data = <<>> THEN rows
  ELSE LET objet == Strip(Head(tenders_data).objet) IN
       IF objet = <<>> THEN ImportLoop(Tail(tenders_data), site, rows)
       ELSE ImportLoop(Tail(tenders_data), site,
                       rows \cup {[title |-> objet, site |-> site]})

\* manage.py import_json_tenders, for the data directory of the scraper: the
\* site is created if missing and the records of its JSON store imported.
\* The directory exists once the scraper has been instantiated; a store
\* that cannot be parsed is reported and skipped.
ImportJsonTenders ==
  /\ pc \in {"Idle", "Returned"}
  /\ runs > 0
  /\ LET site == import_site_name(scraper)
         tenders_data == IF jsonStore.kind = "array" THEN jsonStore.recs ELSE <<>>
     IN  /\ tendersite' = tendersite \cup {site}
         /\ tenders_tender' = ImportLoop(tenders_data, site, tenders_tender)
  /\ UNCHANGED <<DJANGO_AVAILABLE, call, scraper, dom, cmdVars, dateVars, webVars, runVars,
                 fileVars>>

\* manage.py run_scraper <site_name>: the site is fetched, or created under
\* site_name, and scrape() is entered.
StartRunByCommand ==
  /\ BeginRun
  /\ tendersite' = tendersite \cup {scraper}
  /\ UNCHANGED <<DJANGO_AVAILABLE, tenders_tender, call, scraper, dom, cmdVars, dateVars,
                 webVars>>

\* The gateway call when the database answers.
DeduplicateOk == Deduplicate(FALSE)

InitImport ==
  /\ scraper \in Scrapers
  /\ dom \in Pages
  /\ DJANGO_AVAILABLE = TRUE
  /\ tendersite = {}
  /\ tenders_tender = {}
  /\ call = NoCall
  /\ InitRunVars
  /\ InitNoWeb
  /\ InitNoCommand
  /\ InitNoDate

NextImport ==
  StartRun \/ StartRunByCommand \/ StepOk \/ StepFails \/ ExtractDom \/ DeduplicateOk
    \/ NextExport \/ ImportJsonTenders

SpecImport == InitImport /\ [][NextImport]_vars

(***************************************************************************)
(* The subscription views (apps/subscription/views.py), for one user.  A    *)
(* request is handled as a whole; the views open no transaction, so the     *)
(* rows written before an exception stay written.                           *)
(***************************************************************************)
MaxSubscriptions == 3

nonWebVars == <<DJANGO_AVAILABLE, tendersite, tenders_tender, call, scraper, dom, cmdVars,
                dateVars, runVars, fileVars>>

\* The scraping layer at rest.
ScrapingAtRest ==
  /\ DJANGO_AVAILABLE = TRUE
  /\ tendersite = {}
  /\ tenders_tender = {}
  /\ call = NoCall
  /\ scraper = "adm"
  /\ dom = <<>>
  /\ InitRunVars
  /\ InitNoCommand
  /\ InitNoDate

\* The active plans: a free one and two paid ones.
Plans == {"free", "basic", "premium"}

\* Plan.price
price(plan) ==
  CASE plan = "free" -> 0
    [] plan = "basic" -> 10
    [] plan = "premium" -> 30

SubscriptionRow(plan, status) == [plan |-> plan, status |-> status]

\* Subscription.objects.filter(user=..., status__in=statuses).first(), with
\* Meta.ordering = ['-created_at']: the index of the newest such row, 0 for
\* None.
first(rows, statuses) ==
  LET hits == {i \in DOMAIN rows : rows[i].status \in statuses}
  IN  IF hits = {} THEN 0 ELSE CHOOSE i \in hits : \A j \in hits : j <= i

\* unique_together = ['user', 'plan', 'status']: writing (plan, status) into
\* row i (0 for a new row) raises IntegrityError when another row of the
\* user holds the same pair.
Clashes(rows, i, plan, status) ==
  \E j \in DOMAIN rows : j # i /\ rows[j].plan = plan /\ rows[j].status = status

Answer(op, plan, out) == [op |-> op, plan |-> plan, out |-> out]

\* subscribe_to_plan
subscribe_to_plan(plan) ==
  /\ Len(subscription) < MaxSubscriptions
  /\ LET existing_subscription == first(subscription, {"active"}) IN
     IF existing_subscription # 0 \/ price(plan) # 0
     THEN /\ last' = Answer("subscribe_to_plan", plan, "redirect")
          /\ UNCHANGED subscription
     ELSE IF Clashes(subscription, 0, plan, "active")
     THEN /\ last' = Answer("subscribe_to_plan", plan, "IntegrityError")
          /\ UNCHANGED subscription
     ELSE /\ last' = Answer("subscribe_to_plan", plan, "created")
          /\ subscription' = Append(subscription, SubscriptionRow(plan, "active"))
  /\ UNCHANGED <<is_staff, authVars, migVars, nonWebVars>>

\* payment_page, POST with the payment fields filled in
payment_page(plan) ==
  /\ Len(subscription) < MaxSubscriptions
  /\ LET existing_subscription == first(subscription, {"active"})
         cancelled == IF existing_subscription = 0 THEN subscription
                      ELSE [subscription EXCEPT ![existing_subscription].status = "cancelled"]
     IN  IF price(plan) = 0
         THEN /\ last' = Answer("payment_page", plan, "redirect")
              /\ UNCHANGED subscription
         ELSE IF /\ existing_subscription # 0
                 /\ Clashes(subscription, existing_subscription,
                            subscription[existing_subscription].plan, "cancelled")
         THEN /\ last' = Answer("payment_page", plan, "IntegrityError")
              /\ UNCHANGED subscription
         ELSE IF Clashes(cancelled, 0, plan, "active")
         THEN /\ last' = Answer("payment_page", plan, "IntegrityError")
              /\ subscription' = cancelled
         ELSE /\ last' = Answer("payment_page", plan, "created")
              /\ subscription' = Append(cancelled, SubscriptionRow(plan, "active"))
  /\ UNCHANGED <<is_staff, authVars, migVars, nonWebVars>>

\* change_plan
change_plan(new_plan) ==
  /\ LET current_subscription == first(subscription, {"active"}) IN
     IF current_subscription = 0
     THEN /\ last' = Answer("change_plan", new_plan, "redirect")
          /\ UNCHANGED subscription
     ELSE LET old_plan == subscription[current_subscription].plan IN
          IF \/ old_plan = new_plan
             \/ ~is_staff /\ price(old_plan) > 0 /\ price(new_plan) = 0
          THEN /\ last' = Answer("change_plan", new_plan, "redirect")
               /\ UNCHANGED subscription
          ELSE IF Clashes(subscription, current_subscription, new_plan, "active")
          THEN /\ last' = Answer("change_plan", new_plan, "IntegrityError")
               /\ UNCHANGED subscription
          ELSE /\ last' = Answer("change_plan", new_plan, "changed")
               /\ subscription' =
                    [subscription EXCEPT ![current_subscription].plan = new_plan]
  /\ UNCHANGED <<is_staff, authVars, migVars, nonWebVars>>

\* cancel_subscription, POST: the paid subscription moves to the free plan;
\* an exception of save() is caught and reported as a message.
cancel_subscription ==
  /\ LET sub == first(subscription, {"active"}) IN
     IF sub = 0 \/ price(subscription[IF sub = 0 THEN 1 ELSE sub].plan) = 0
     THEN /\ last' = Answer("cancel_subscription", "free", "redirect")
          /\ UNCHANGED subscription
     ELSE IF Clashes(subscription, sub, "free", "active")
     THEN /\ last' = Answer("cancel_subscription", "free", "error message")
          /\ UNCHANGED subscription
     ELSE /\ last' = Answer("cancel_subscription", "free", "changed")
          /\ subscription' = [subscription EXCEPT ![sub].plan = "free"]
  /\ UNCHANGED <<is_staff, authVars, migVars, nonWebVars>>

\* renew_subscription, POST: Subscription.renew() of the newest cancelled or
\* expired row.
renew_subscription ==
  /\ LET sub == first(subscription, {"cancelled", "expired"}) IN
     IF sub = 0
     THEN /\ last' = Answer("renew_subscription", "free", "redirect")
          /\ UNCHANGED subscription
     ELSE IF Clashes(subscription, sub, subscription[sub].plan, "active")
     THEN /\ last' = Answer("renew_subscription", subscription[sub].plan, "IntegrityError")
          /\ UNCHANGED subscription
     ELSE /\ last' = Answer("renew_subscription", subscription[sub].plan, "renewed")
          /\ subscription' = [subscription EXCEPT ![sub].status = "active"]
  /\ UNCHANGED <<is_staff, authVars, migVars, nonWebVars>>

\* tenders.permissions.check_premium_access:
\* Subscription.objects.get(user=user, status='active')
check_premium_access ==
  /\ LET active == {i \in DOMAIN subscription : subscription[i].status = "active"} IN
     last' = Answer("check_premium_access", "premium",
                    IF active = {} THEN "False"
                    ELSE IF Cardinality(active) > 1 THEN "MultipleObjectsReturned"
                    ELSE IF subscription[CHOOSE i \in active : TRUE].plan = "premium"
                         THEN "True" ELSE "False")
  /\ UNCHANGED <<is_staff, subscription, authVars, migVars, nonWebVars>>

InitSubscription ==
  /\ is_staff \in BOOLEAN
  /\ subscription = <<>>
  /\ last = NoRequest
  /\ InitNoAuth
  /\ InitNoMigration
  /\ ScrapingAtRest

NextSubscribe == \E plan \in Plans : subscribe_to_plan(plan)
NextPayment == \E plan \in Plans : payment_page(plan)
NextChangePlan == \E plan \in Plans : change_plan(plan)

NextSubscription ==
  NextSubscribe \/ NextPayment \/ NextChangePlan \/ cancel_subscription
    \/ renew_subscription \/ check_premium_access

SpecSubscription == InitSubscription /\ [][NextSubscription]_vars

(***************************************************************************)
(* Password reset (apps/auth): PasswordResetToken and the two views, each   *)
(* request handled as a whole.                                              *)
(***************************************************************************)
MaxTokens == 3

\* The passwords a user may choose in the confirmation form.
NewPasswords == {"pw1", "pw2"}

\* A new row: used = False, expires_at 24 hours ahead.  resets counts the
\* password changes made with the token.
NewToken(user) == [user |-> user, used |-> FALSE, expired |-> FALSE, resets |-> 0]

\* PasswordResetToken.is_valid
is_valid(reset_token) == ~reset_token.used /\ ~reset_token.expired

\* create_token without the update of the earlier tokens.
create_token_KeepsOld(rows, user) == Append(rows, NewToken(user))

\* PasswordResetToken.create_token
create_token(rows, user) ==
  Append([i \in DOMAIN rows |->
            IF rows[i].user = user /\ ~rows[i].used
            THEN [rows[i] EXCEPT !.used = TRUE] ELSE rows[i]],
         NewToken(user))

TokenAnswer(op, token, out) == [op |-> op, token |-> token, out |-> out]

\* password_reset_request, POST with a valid form.  An email of no account
\* creates nothing; a failure of send_mail is caught after the token was
\* created.
password_reset_request(email, mailFails) ==
  /\ Len(auth_password_reset_token) < MaxTokens
  /\ IF email \notin Users
     THEN /\ last' = TokenAnswer("password_reset_request", 0, "redirect")
          /\ UNCHANGED auth_password_reset_token
     ELSE /\ auth_password_reset_token' = create_token(auth_password_reset_token, email)
          /\ last' = TokenAnswer("password_reset_request",
                                 Len(auth_password_reset_token) + 1,
                                 IF mailFails THEN "error message" ELSE "redirect")
  /\ UNCHANGED <<password, subVars, migVars, nonWebVars>>

\* password_reset_confirm for the link of row token (0: a link of no row).
\* posted: POST with a valid form that carries password1.
password_reset_confirm(token, posted, password1) ==
  /\ IF token = 0
     THEN /\ last' = TokenAnswer("password_reset_confirm", token, "invalid link")
          /\ UNCHANGED <<auth_password_reset_token, password>>
     ELSE LET reset_token == auth_password_reset_token[token] IN
          IF ~is_valid(reset_token)
          THEN /\ last' = TokenAnswer("password_reset_confirm", token, "expired or used")
               /\ UNCHANGED <<auth_password_reset_token, password>>
          ELSE IF ~posted
          THEN /\ last' = TokenAnswer("password_reset_confirm", token, "form")
               /\ UNCHANGED <<auth_password_reset_token, password>>
          ELSE /\ password' = [password EXCEPT ![reset_token.user] = password1]
               /\ auth_password_reset_token' =
                    [auth_password_reset_token EXCEPT ![token].used = TRUE,
                                                      ![token].resets = @ + 1]
               /\ last' = TokenAnswer("password_reset_confirm", token, "password changed")
  /\ UNCHANGED <<subVars, migVars, nonWebVars>>

\* Time passes beyond expires_at of a token.
TokenExpires(token) ==
  /\ ~auth_password_reset_token[token].expired
  /\ auth_password_reset_token' = [auth_password_reset_token EXCEPT ![token].expired = TRUE]
  /\ UNCHANGED <<password, last, subVars, migVars, nonWebVars>>

InitPasswordReset ==
  /\ InitNoAuth
  /\ is_staff = FALSE
  /\ subscription = <<>>
  /\ last = NoRequest
  /\ InitNoMigration
  /\ ScrapingAtRest

NextResetRequest ==
  \E email \in Users \cup {"nobody"}, mailFails \in BOOLEAN :
    password_reset_request(email, mailFails)

NextResetConfirm ==
  \E token \in 0..Len(auth_password_reset_token), posted \in BOOLEAN,
     password1 \in NewPasswords :
    password_reset_confirm(token, posted, password1)

NextTokenExpires == \E token \in DOMAIN auth_password_reset_token : TokenExpires(token)

NextPasswordReset == NextResetRequest \/ NextResetConfirm \/ NextTokenExpires

SpecPasswordReset == InitPasswordReset /\ [][NextPasswordReset]_vars

(***************************************************************************)
(* SubscriptionMigrationService.migrate_user_to_paid_plan                   *)
(* (apps/subscription/services/subscription_migration.py).  A step returns  *)
(* [raised |-> "none", ...] or [raised |-> the name of the exception].      *)
(***************************************************************************)
\* The attributes of a Plan object: its fields and its methods.
PlanAttributes ==
  {"id", "name", "slug", "description", "plan_type", "price", "billing_cycle",
   "max_users", "max_projects", "storage_limit_gb", "has_api_access",
   "has_priority_support", "has_analytics", "has_custom_branding", "is_active",
   "is_featured", "sort_order", "created_at", "updated_at",
   "get_price_display", "get_features_list"}

\* The fields of Subscription a query or a constructor may name; is_active,
\* is_expired and days_remaining are properties, not fields.
SubscriptionFields ==
  {"id", "user", "plan", "status", "start_date", "end_date", "next_billing_date",
   "amount_paid", "is_trial", "trial_end_date", "payment_method",
   "transaction_id", "created_at", "updated_at"}

\* The Plan object handed to the service.
PlanObject(name, active) == [name |-> name, is_active |-> active]

\* The rows of PlanPermission with is_active, in Meta.ordering.
plan_permissions(plan) ==
  CASE plan = "basic" -> <<"view_tender">>
    [] plan = "premium" -> <<"export_tender", "view_tender">>
    [] OTHER -> <<>>

TemporaryPermission(permission, sub, active) ==
  [permission |-> permission, subscription |-> sub, is_active |-> active,
   revoked |-> ~active]

MigrationLog(action, permission, old_plan, new_plan, sub) ==
  [action |-> action, permission |-> permission, old_plan |-> old_plan,
   new_plan |-> new_plan, subscription |-> sub]

\* The three tables the service writes.
Db ==
  [subscription |-> subscription, perms |-> user_temporary_permission,
   logs |-> permission_migration_log]

Raised(exception) == [raised |-> exception]

\* Subscription.objects.filter(user=user, is_active=True).first(): the index
\* of the row, 0 for None.  A keyword that names no field raises FieldError.
_get_current_subscription(db) ==
  IF "is_active" \notin SubscriptionFields
  THEN Raised("FieldError")
  ELSE LET hits == {i \in DOMAIN db.subscription : db.subscription[i].is_active}
       IN  [raised |-> "none",
            value |-> IF hits = {} THEN 0
                      ELSE CHOOSE i \in hits : \A j \in hits : j <= i]

\* _validate_migration: the exception it raises, "none" when it returns.
_validate_migration(db, new_plan) ==
  IF ~new_plan.is_active THEN "ValidationError"
  ELSE IF "is_free" \notin PlanAttributes THEN "AttributeError"
  ELSE IF new_plan.is_free THEN "ValidationError"
  ELSE LET current_subscription == _get_current_subscription(db)
       IN  IF current_subscription.raised # "none" THEN current_subscription.raised
           ELSE IF /\ current_subscription.value # 0
                   /\ db.subscription[current_subscription.value].plan = new_plan.name
           THEN "ValidationError"
           ELSE "none"

_create_or_update_subscription(db, plan, auto_activate) ==
  IF "is_active" \notin SubscriptionFields
  THEN Raised("FieldError")
  ELSE [raised |-> "none",
        db |-> [db EXCEPT !.subscription =
                  Append([i \in DOMAIN @ |-> [@[i] EXCEPT !.is_active = FALSE]],
                         [plan |-> plan.name, status |-> "pending",
                          is_active |-> auto_activate])]]

\* perm.revoke() and a REVOKE log for every active temporary permission.
_revoke_old_permissions(db, old_subscription) ==
  LET active == SelectSeq(db.perms, LAMBDA perm : perm.is_active)
      old_plan == IF old_subscription = 0 THEN "None"
                  ELSE db.subscription[old_subscription].plan
  IN  [db EXCEPT
         !.perms = [i \in DOMAIN @ |->
                      IF @[i].is_active
                      THEN [@[i] EXCEPT !.is_active = FALSE, !.revoked = TRUE]
                      ELSE @[i]],
         !.logs = @ \o [i \in DOMAIN active |->
                          MigrationLog("REVOKE", active[i].permission, old_plan,
                                       "None", old_subscription)]]

_grant_plan_permissions(db, plan, sub) ==
  [db EXCEPT !.perms = @ \o [i \in DOMAIN plan_permissions(plan.name) |->
       TemporaryPermission(plan_permissions(plan.name)[i], sub, TRUE)]]

_log_migration(db, old_plan, new_plan, sub) ==
  [db EXCEPT !.logs = @ \o [i \in DOMAIN plan_permissions(new_plan.name) |->
       MigrationLog("MIGRATE", plan_permissions(new_plan.name)[i], old_plan,
                    new_plan.name, sub)]]

\* The body of the with block.
MigrationBody(db, new_plan, auto_activate) ==
  LET validation == _validate_migration(db, new_plan) IN
  IF validation # "none" THEN Raised(validation) ELSE
  LET current_subscription == _get_current_subscription(db) IN
  IF current_subscription.raised # "none" THEN Raised(current_subscription.raised) ELSE
  LET old_plan == IF current_subscription.value = 0 THEN "None"
                  ELSE db.subscription[current_subscription.value].plan
      created == _create_or_update_subscription(db, new_plan, auto_activate)
  IN
  IF created.raised # "none" THEN Raised(created.raised) ELSE
  LET sub == Len(created.db.subscription)
      revoked == _revoke_old_permissions(created.db, current_subscription.value)
      granted == _grant_plan_permissions(revoked, new_plan, sub)
  IN  [raised |-> "none", db |-> _log_migration(granted, old_plan, new_plan, sub)]

\* An except clause that lets the exception through.
except_clause_Reraises(exception) == exception

\* except Exception as e: raise ValidationError(...)
except_clause(exception) == "ValidationError"

\* try / with transaction.atomic(): the writes of the body are kept when it
\* returns and rolled back when it raises.  unavailable: the database
\* refuses the transaction.
migrate_result(db, new_plan, auto_activate, unavailable) ==
  LET body == IF unavailable THEN Raised("OperationalError")
              ELSE MigrationBody(db, new_plan, auto_activate)
  IN  IF body.raised = "none"
      THEN [db |-> body.db, out |-> "success", cause |-> "none"]
      ELSE [db |-> db, out |-> except_clause(body.raised), cause |-> body.raised]

MigrationAnswer(plan, out, cause) ==
  [op |-> "migrate_user_to_paid_plan", plan |-> plan, out |-> out, cause |-> cause]

migrate_user_to_paid_plan(new_plan, auto_activate, unavailable) ==
  LET result == migrate_result(Db, new_plan, auto_activate, unavailable) IN
  /\ subscription' = result.db.subscription
  /\ user_temporary_permission' = result.db.perms
  /\ permission_migration_log' = result.db.logs
  /\ last' = MigrationAnswer(new_plan.name, result.out, result.cause)
  /\ UNCHANGED <<is_staff, authVars, nonWebVars>>

\* Rows of the two permission tables that were stored before the requests of
\* the model.
StoredPermissions ==
  {<<>>, <<TemporaryPermission("view_tender", 0, TRUE)>>,
   <<TemporaryPermission("view_tender", 0, FALSE),
     TemporaryPermission("export_tender", 0, TRUE)>>}

StoredLogs == {<<>>, <<MigrationLog("EXPIRE", "view_tender", "None", "None", 0)>>}

InitMigration ==
  /\ is_staff = FALSE
  /\ subscription = <<>>
  /\ last = NoRequest
  /\ user_temporary_permission \in StoredPermissions
  /\ permission_migration_log \in StoredLogs
  /\ InitNoAuth
  /\ ScrapingAtRest

NextMigrate ==
  \E name \in Plans, active \in BOOLEAN, auto_activate \in BOOLEAN,
     unavailable \in BOOLEAN :
    migrate_user_to_paid_plan(PlanObject(name, active), auto_activate, unavailable)

NextMigration ==
  NextSubscribe \/ NextPayment \/ NextChangePlan \/ cancel_subscription
    \/ renew_subscription \/ NextMigrate

SpecMigration == InitMigration /\ [][NextMigration]_vars

(***************************************************************************)
(* Claims about the Deduplication Gateway (checked under SpecDedup).        *)
(***************************************************************************)
Filtered == call.op = "filter"

EmptyTitle(td) == Strip(td.objet) = <<>>

\* C1: filter_new_tenders never raises and returns its input list unchanged
\* whenever DJANGO_AVAILABLE is false or the database check raises.
C1_FailOpen ==
  (Filtered /\ (~DJANGO_AVAILABLE \/ call.fault))
    => (~call.raised /\ call.result = call.tenders)

\* A two-record batch, one of whose records the check would have filtered,
\* came back whole from a call in which the database raised.
C1_Witness ==
  /\ Filtered /\ DJANGO_AVAILABLE /\ call.fault
  /\ Len(call.tenders) = 2
  /\ call.site_name \in tendersite
  /\ \E r \in tenders_tender :
       r.site = call.site_name /\ Lower(r.title) = Lower(Strip(call.tenders[1].objet))
  /\ call.result = call.tenders

\* A record is new for a site when its trimmed title is non-empty and no row
\* of that site has a title equal to it ignoring case.
IsNewFor(td, site, rows) ==
  /\ Strip(td.objet) # <<>>
  /\ ~\E r \in rows : r.site = site /\ Lower(r.title) = Lower(Strip(td.objet))

\* C2: backend available, site persisted, no error: the result is, in input
\* order, exactly the input records with a non-empty trimmed title that no
\* tender of the same site matches ignoring case; rows of other sites, links
\* and dates play no part.
C2_ExactlyTheNew ==
  (Filtered /\ DJANGO_AVAILABLE /\ ~call.fault /\ call.site_name \in call.sitesBefore)
    => call.result =
         SelectSeq(call.tenders,
                   LAMBDA td : IsNewFor(td, call.site_name, call.rowsBefore))

\* The first record differs from a stored title of the site only by case or by
\* surrounding whitespace and is filtered out; the second matches only a row
\* of another site and is returned.
C2_Witness ==
  /\ Filtered /\ DJANGO_AVAILABLE /\ ~call.fault
  /\ call.site_name \in call.sitesBefore
  /\ Len(call.tenders) = 2
  /\ \E r \in call.rowsBefore :
       /\ r.site = call.site_name
       /\ r.title # call.tenders[1].objet
       /\ Lower(r.title) = Lower(Strip(call.tenders[1].objet))
  /\ \E r \in call.rowsBefore :
       /\ r.site # call.site_name
       /\ Lower(r.title) = Lower(Strip(call.tenders[2].objet))
  /\ call.result = <<call.tenders[2]>>

\* C3 as claimed: in every branch no record with an empty or whitespace-only
\* title is in the returned list.
C3_Claimed_NoEmptyTitleInAnyBranch ==
  Filtered => \A i \in 1..Len(call.result) : ~EmptyTitle(call.result[i])

\* C3 as amended: the database-check branch returns no record with an empty
\* or whitespace-only title; the site-not-found, backend-unavailable and
\* exception branches return every such record of the input, in place.
C3_NoEmptyTitleWhenChecked ==
  Filtered =>
    IF DJANGO_AVAILABLE /\ ~call.fault /\ call.site_name \in call.sitesBefore
    THEN \A i \in 1..Len(call.result) : ~EmptyTitle(call.result[i])
    ELSE /\ Len(call.result) = Len(call.tenders)
         /\ \A i \in 1..Len(call.tenders) :
              EmptyTitle(call.tenders[i]) => call.result[i] = call.tenders[i]

\* The database check ran on a batch holding a whitespace-only title and a
\* new title, and returned the new one alone.
C3_Witness ==
  /\ Filtered /\ DJANGO_AVAILABLE /\ ~call.fault
  /\ call.site_name \in call.sitesBefore
  /\ Len(call.tenders) = 2
  /\ call.tenders[1].objet = <<" ">>
  /\ call.result = <<call.tenders[2]>>

\* C4: a gateway call leaves the persisted sites and tenders as they were, in
\* every branch, and returns the whole input when the site is not persisted.
C4_FilterWritesNothing ==
  Filtered =>
    /\ tendersite = call.sitesBefore
    /\ tenders_tender = call.rowsBefore
    /\ (DJANGO_AVAILABLE /\ ~call.fault /\ call.site_name \notin call.sitesBefore)
         => call.result = call.tenders

\* The call named a site that is not persisted while another site has a
\* tender: the batch came back whole and the site is still not persisted.
C4_Witness ==
  /\ Filtered /\ DJANGO_AVAILABLE /\ ~call.fault
  /\ call.site_name \notin tendersite
  /\ tenders_tender # {}
  /\ Len(call.tenders) = 2
  /\ call.result = call.tenders

(***************************************************************************)
(* Claims about the scrapers and their export step (checked under           *)
(* SpecScrape).                                                             *)
(***************************************************************************)
Returned == pc = "Returned"

\* The run reached its export step with a non-empty batch.
ExportRan == Returned /\ new_tenders # <<>>

EmptyList == [kind |-> "list", value |-> <<>>]

C6_Claimed_StoreIsAppendOnly ==
  (Returned /\ storeAtStart.kind = "array") =>
    /\ jsonStore.kind = "array"
    /\ Len(jsonStore.recs) >= Len(storeAtStart.recs)
    /\ SubSeq(jsonStore.recs, 1, Len(storeAtStart.recs)) = storeAtStart.recs

\* C7: a run that fails at authentication, navigation, the wait for content
\* or extraction leaves the JSON store and the spreadsheet as they were when
\* it started; the files differ from what they were at the start of the run
\* only once the gateway has returned a non-empty batch.
C7_FailedRunLeavesFiles ==
  /\ (Returned /\ failedAt \in PreExportStages)
       => (jsonStore = storeAtStart /\ xlsx = xlsxAtStart)
  /\ (jsonStore # storeAtStart \/ xlsx # xlsxAtStart)
       => (ExportRan /\ failedAt \notin PreExportStages)

\* A run over a store that already holds records failed during extraction.
C7_Witness ==
  /\ Returned /\ failedAt = "Extracting"
  /\ storeAtStart.kind = "array" /\ storeAtStart.recs # <<>>
  /\ jsonStore = storeAtStart

\* C8 as claimed: an I/O failure in the export step is caught there, reported
\* as the boolean False, and scrape() does not raise.
C8_Claimed_ExportFailureIsBoolean ==
  (Returned /\ failedAt = "Exporting") => (ret.kind = "list" /\ exportRet = "False")

Steps == {"Authenticating", "Navigating", "WaitingForContent"}

\* C9 as claimed: in every scraper a step that cannot be completed makes
\* scrape() return an empty list.
C9_Claimed_StepFailureReturnsEmpty ==
  (Returned /\ failedAt \in Steps) => ret = EmptyList

\* C9 as amended: marchespublics, cgi and royalairmaroc (after its last
\* attempt) return an empty list; adm, marsamaroc and offresonline let the
\* exception out of scrape().
C9_StepFailureOutcome ==
  (Returned /\ failedAt \in Steps) =>
    IF scraper \in {"marchespublics", "cgi", "royalairmaroc"}
    THEN ret = EmptyList
    ELSE ret.kind = "raised"

\* The results container never appeared in the last attempt of
\* royalairmaroc, and scrape() returned [].
C9_Witness ==
  /\ Returned /\ failedAt = "WaitingForContent"
  /\ scraper = "royalairmaroc" /\ attempt = max_retries - 1
  /\ ret = EmptyList

\* C10 as claimed: over a missing or unparseable store, an export step that
\* meets no new I/O failure writes exactly the new records, and the run
\* returns them.
C10_Claimed_UnparseableStoreIsEmpty ==
  (ExportRan /\ io = "none" /\ storeAtStart.kind # "array") =>
    /\ jsonStore = ArrayFile(new_tenders)
    /\ ret = [kind |-> "list", value |-> new_tenders]

(***************************************************************************)
(* Claims about the retry loop of RoyalAirMarocScraper (checked under       *)
(* SpecScrape).                                                             *)
(***************************************************************************)
\* C11: RoyalAirMarocScraper.scrape() makes at most max_retries attempts;
\* every wait of the retry delay is followed by a new attempt, so the number
\* of waits equals the number of attempts already failed and none follows the
\* last attempt; when the last attempt fails scrape() returns an empty list.
\* The other scrapers make one attempt and never wait.
C11_RetryBudget ==
  /\ attempt \in 0..(max_retries - 1)
  /\ slept = attempt
  /\ scraper # "royalairmaroc" => attempt = 0
  /\ (scraper = "royalairmaroc" /\ Returned /\ failedAt \in PreExportStages)
       => (attempt = max_retries - 1 /\ slept = max_retries - 1 /\ ret = EmptyList)

\* The third attempt of royalairmaroc failed at navigation after two waits.
C11_Witness ==
  /\ scraper = "royalairmaroc" /\ Returned /\ failedAt = "Navigating"
  /\ attempt = max_retries - 1 /\ slept = 2
  /\ ret = EmptyList

\* C12 as claimed: a new attempt starts only after a failure in the
\* navigation or extraction stage.
C12_Claimed_RetryOnlyAfterNavigationOrExtraction ==
  [][attempt' > attempt => pc \in {"Navigating", "WaitingForContent", "Extracting"}]_vars

\* C12 as amended: a new attempt starts only after a failure of a step before
\* deduplication (authentication included); an attempt that reaches the end
\* of deduplication with zero records ends the run at once with an empty
\* list.
C12_RetryOnlyAfterFailure ==
  [][/\ attempt' > attempt =>
          /\ scraper = "royalairmaroc"
          /\ pc \in PreExportStages
          /\ pc' = "Authenticating"
          /\ attempt' = attempt + 1
     /\ (pc = "Exporting" /\ new_tenders = <<>>) =>
          /\ pc' = "Returned"
          /\ ret' = EmptyList
          /\ attempt' = attempt]_vars

\* The first attempt failed, the second extracted nothing new and the run
\* ended there with an empty list.
C12_Witness ==
  /\ scraper = "royalairmaroc" /\ Returned /\ failedAt = "none"
  /\ attempt = 1 /\ new_tenders = <<>>
  /\ ret = EmptyList

(***************************************************************************)
(* Claims about the extraction loop (checked under SpecExtract).            *)
(***************************************************************************)
\* The scrapers that walk a fixed range of row indices.
IndexScrapers == {"adm", "marsamaroc", "offresonline", "royalairmaroc"}

\* The records of the rows of the page that carry a title, in row order.
TitledRecords(s, page) ==
  LET titled == SelectSeq(page, LAMBDA r : r.kind = "title")
  IN  [i \in 1..Len(titled) |-> MakeTender(s, Strip(titled[i].text))]

\* The titles on the page are non-empty after trimming and pairwise distinct.
DistinctTitles(page) ==
  /\ \A i \in 1..Len(page) : page[i].kind = "title" => Strip(page[i].text) # <<>>
  /\ \A i, j \in 1..Len(page) :
       (i < j /\ page[i].kind = "title" /\ page[j].kind = "title")
         => Strip(page[i].text) # Strip(page[j].text)

RowKinds(page) == {page[i].kind : i \in 1..Len(page)}

\* The extraction loop of the current run has ended normally.
ExtractionDone ==
  \/ pc \in {"Deduplicating", "Exporting"}
  \/ Returned /\ failedAt \notin PreExportStages

\* C13 as claimed: over an index range whose rows are absent, raise during
\* extraction or carry distinct titles, extraction does not fail the run and
\* the batch holds exactly the records of the titled rows, in row order.
C13_Claimed_BadRowsAreSkipped ==
  (/\ scraper \in IndexScrapers
   /\ RowKinds(dom) \subseteq {"absent", "raises", "title"}
   /\ DistinctTitles(dom))
    => /\ failedAt # "Extracting"
       /\ ExtractionDone => extracted = TitledRecords(scraper, dom)

\* C14 as claimed: in every scraper, on a page whose rows all resolve and
\* carry distinct titles except those without a title element, extraction
\* does not fail the run and the batch holds exactly the records of the
\* titled rows, in row order.
C14_Claimed_UntitledRowGivesNoRecord ==
  (/\ RowKinds(dom) \subseteq {"notitle", "title"}
   /\ DistinctTitles(dom))
    => /\ failedAt # "Extracting"
       /\ ExtractionDone => extracted = TitledRecords(scraper, dom)

\* C15 as claimed: no record of the batch built by the extraction loop has a
\* title that is empty after trimming.
C15_Claimed_NoEmptyTitleInBatch ==
  \A i \in 1..Len(extracted) : ~EmptyTitle(extracted[i])

\* C16 as claimed: no two records of the batch handed to the gateway have the
\* same title.
C16_Claimed_NoRepeatedTitleInBatch ==
  \A i, j \in 1..Len(extracted) : i < j => extracted[i].objet # extracted[j].objet

(***************************************************************************)
(* Claims about run_scraper (checked under SpecRun).                        *)
(***************************************************************************)
\* C17 as claimed: when no invocation passes --force, at most one
\* ScrapingLog row of the site is in status 'running' at any time.
C17_Claimed_OneRunningLogPerSite ==
  (\A p \in Procs : ~force[p])
    => Cardinality({p \in Procs : scrapinglog[p].status = "running"}) <= 1

\* C18 as claimed: when a step of the scraper run failed, run_scraper ends
\* with the run's log in status 'failed', completed_at set and a non-empty
\* error_message, whichever the scraper.
C18_Claimed_FailedRunIsLoggedFailed ==
  \A p \in Procs :
    (cmd[p].pc = "done" /\ cmd[p].stepFailed)
      => /\ scrapinglog[p].status = "failed"
         /\ scrapinglog[p].completed_at
         /\ scrapinglog[p].error_message # ""

(***************************************************************************)
(* Claims about convert_date_to_standard_format (checked under SpecDate).   *)
(***************************************************************************)
Converted == formatted_date # NotConverted

StandardDate == <<"2", "0", "2", "5", "-", "0", "8", "-", "2", "7">>

\* C19 as claimed: "27/08/2025", "27-08-2025", "2025-08-27", "27 août 2025"
\* and "August 27, 2025" all give "2025-08-27"; "N/A", "" and "garbage text"
\* give None.
C19_Claimed_ListedConversions ==
  Converted =>
    /\ date_text \in {SlashDate, DashDate, IsoDate, FrenchDate, EnglishDate}
         => formatted_date = Str(StandardDate)
    /\ date_text \in {NA, <<>>, GarbageText} => formatted_date = NoneValue

\* The day is a day of the month of that year.
LegalDate(d, m, y) == m \in 1..12 /\ d \in 1..DaysInMonth(m, y)

\* C20 as claimed: a numeric date (DD/MM/YYYY, DD-MM-YYYY, DD.MM.YYYY or
\* YYYY-MM-DD) whose day is not a legal day of its month, or whose day or
\* month is out of range, gives None.
C20_Claimed_IllegalDateGivesNone ==
  \A d \in DayNumbers, m \in MonthNumbers, y \in YearNumbers :
    (/\ Converted
     /\ ~LegalDate(d, m, y)
     /\ \/ date_text = IsoText(d, m, y)
        \/ \E sep \in Separators : date_text = NumericText(d, m, y, sep))
      => formatted_date = NoneValue

(***************************************************************************)
(* Claims about whole runs of a scraper (checked under SpecScrape).         *)
(***************************************************************************)
\* The run went through every stage and met no failure.
Completed == Returned /\ failedAt = "none" /\ ret.kind = "list"

\* C21 as claimed: after a completed run of any scraper, data.txt holds
\* exactly the records the run reported as new (a missing file holds none).
C21_Claimed_DataTxtIsLatestBatch ==
  Completed => dataTxt.recs = ret.value

\* A run of scrape() is under way.
Running == pc \notin {"Idle", "Returned"}

\* C22: every invocation of scrape() terminates: from any stage the run
\* reaches its end, having returned a list or raised, and the attempts of
\* royalairmaroc never exceed its retry budget.
C22_ScrapeTerminates ==
  /\ Running ~> (Returned /\ ret.kind \in {"list", "raised"})
  /\ [](attempt < max_retries)

\* The portal never showed the results container: every attempt of
\* royalairmaroc timed out there and the run ended after the last one.
C22_Witness ==
  /\ scraper = "royalairmaroc" /\ Returned /\ failedAt = "WaitingForContent"
  /\ attempt = max_retries - 1 /\ slept = max_retries - 1
  /\ runs = 1

\* The run got past the gateway call.
PastGateway == Returned /\ failedAt \notin PreExportStages

\* C23 as claimed: in every run of every scraper the files are written only
\* by the export step, after the gateway has returned a non-empty batch; the
\* run then leaves the store holding its prior records followed by exactly
\* that batch, scrape() returns that same list, and a run whose gateway call
\* reports no new record writes no file.
C23_Claimed_ExportsExactlyTheNew ==
  /\ [][fileVars' # fileVars => (pc = "Exporting" /\ new_tenders # <<>>)]_vars
  /\ [](PastGateway =>
          /\ ret = [kind |-> "list", value |-> new_tenders]
          /\ jsonStore = IF new_tenders = <<>> THEN storeAtStart
                         ELSE ArrayFile(storeAtStart.recs \o new_tenders))

\* The identity of a record for deduplication: its title, trimmed, ignoring
\* case.
TitleKey(td) == Lower(Strip(td.objet))

\* C24 as claimed: a run appends to the store no record whose title, ignoring
\* case and surrounding whitespace, is that of a record the store held when
\* the run started.
C24_Claimed_StoredTitleNotAppendedAgain ==
  (Completed /\ storeAtStart.kind = "array" /\ jsonStore.kind = "array") =>
    \A i \in 1..Len(storeAtStart.recs) :
      \A j \in (Len(storeAtStart.recs) + 1)..Len(jsonStore.recs) :
        TitleKey(jsonStore.recs[j]) # TitleKey(storeAtStart.recs[i])

(***************************************************************************)
(* Claims about the month names (checked under SpecDate).                   *)
(***************************************************************************)
\* C25 as claimed: for each English month name M, day D and year Y, the text
\* "M D, Y" gives Y-MM-DD with the number of the month M and the day and the
\* month padded to two digits.
C25_Claimed_EnglishMonthDates ==
  \A m \in 1..12, d \in EnglishDays, y \in EnglishYears :
    (Converted /\ date_text = EnglishText(m, d, y))
      => formatted_date =
           Str(ToDigits(y) \o Dash \o zfill(ToDigits(m), 2) \o Dash \o zfill(ToDigits(d), 2))

(***************************************************************************)
(* Claims about the log of run_scraper (checked under SpecRunAny).          *)
(***************************************************************************)
\* C26 as claimed: when an invocation of run_scraper has ended, the log it
\* created is in status 'completed' or 'failed' with completed_at filled,
\* whatever the scraper did.
C26_Claimed_NoLogLeftRunning ==
  \A p \in Procs :
    (cmd[p].pc = "done" /\ scrapinglog[p] # NoLog)
      => /\ scrapinglog[p].status \in {"completed", "failed"}
         /\ scrapinglog[p].completed_at

(***************************************************************************)
(* Claims about the site names (checked under SpecImport).                  *)
(***************************************************************************)
\* C27 as claimed: whichever command persisted the site, it did so under the
\* name the gateway resolves from the scraper's class, and no record the
\* gateway reports as new has the title, ignoring case, of a persisted tender.
C27_Claimed_SiteNamesAgree ==
  /\ tendersite \subseteq {SiteOf(scraper)}
  /\ pc = "Exporting" =>
       \A i \in 1..Len(new_tenders) :
         \A r \in tenders_tender : Lower(r.title) # TitleKey(new_tenders[i])

(***************************************************************************)
(* Claims about the subscription views (checked under SpecSubscription).    *)
(***************************************************************************)
\* C28 as claimed: after any sequence of subscribe_to_plan, payment_page,
\* change_plan, cancel_subscription and renew_subscription requests the user
\* has at most one subscription in status 'active'.
C28_Claimed_AtMostOneActive ==
  Cardinality({i \in DOMAIN subscription : subscription[i].status = "active"}) <= 1

(***************************************************************************)
(* Claims about password reset (checked under SpecPasswordReset).           *)
(***************************************************************************)
UnusedTokens(user) ==
  {i \in DOMAIN auth_password_reset_token :
     auth_password_reset_token[i].user = user /\ ~auth_password_reset_token[i].used}

\* C29: after any sequence of password-reset requests and confirmations each
\* user has at most one unused token; a token that has reset a password is
\* used, is never valid again and has reset the password once; a used token
\* never becomes unused.
C29_OneUnusedTokenSingleUse ==
  /\ [](\A user \in Users : Cardinality(UnusedTokens(user)) <= 1)
  /\ [](\A i \in DOMAIN auth_password_reset_token :
          LET reset_token == auth_password_reset_token[i] IN
          /\ reset_token.resets <= 1
          /\ reset_token.resets = 1 => (reset_token.used /\ ~is_valid(reset_token)))
  /\ [][\A i \in DOMAIN auth_password_reset_token :
          auth_password_reset_token[i].used => auth_password_reset_token'[i].used]_vars

\* A token reset the password of u1; u1 then asked for another token, and a
\* second confirmation with the first link was refused.
C29_Witness ==
  /\ Len(auth_password_reset_token) >= 2
  /\ auth_password_reset_token[1].user = "u1"
  /\ auth_password_reset_token[1].resets = 1
  /\ auth_password_reset_token[2].user = "u1"
  /\ ~auth_password_reset_token[2].used
  /\ password["u1"] # "initial"
  /\ last = TokenAnswer("password_reset_confirm", 1, "expired or used")

(***************************************************************************)
(* Claims about the migration service (checked under SpecMigration).        *)
(***************************************************************************)
\* The step made every subscription of before inactive, stored the new one,
\* revoked the temporary permissions that were active, granted the
\* permissions of the plan and logged each of them.
Migrated ==
  /\ Len(subscription') = Len(subscription) + 1
  /\ subscription'[Len(subscription')].plan = last'.plan
  /\ \A i \in DOMAIN subscription : subscription'[i].status # "active"
  /\ \A i \in DOMAIN user_temporary_permission :
       ~user_temporary_permission'[i].is_active
  /\ \A i \in DOMAIN plan_permissions(last'.plan) :
       /\ \E j \in DOMAIN user_temporary_permission' :
            /\ j > Len(user_temporary_permission)
            /\ user_temporary_permission'[j].permission = plan_permissions(last'.plan)[i]
            /\ user_temporary_permission'[j].is_active
       /\ \E j \in DOMAIN permission_migration_log' :
            /\ j > Len(permission_migration_log)
            /\ permission_migration_log'[j].action = "MIGRATE"
            /\ permission_migration_log'[j].permission = plan_permissions(last'.plan)[i]

====
